---- MODULE Spec2Model ----
(***************************************************************************)
(* Model of the customer-analyzer ML services: the retraining scheduler    *)
(* (ml-services/src/scheduler/model_retraining.py) and the feature         *)
(* extractors (ml-services/src/features/*.py).                             *)
(*                                                                         *)
(* Optional values (Python None / a value) are sequences of length 0 / 1,  *)
(* so that they compare with each other.  Python dicts are functions whose *)
(* DOMAIN is the set of keys present.                                      *)
(***************************************************************************)
EXTENDS Integers, Sequences, FiniteSets, TLC

VARIABLES
    \* ---- ModelRetrainingScheduler (model_retraining.py) ----
    is_running,          \* self.is_running
    retraining_thread,   \* self.retraining_thread: None or the last thread spawned
    thread_pc,           \* position of every loop thread in _run_scheduler
    jobs,                \* schedule.jobs of the process-wide default scheduler
    retraining_config,   \* self.retraining_config
    segmentation_model,  \* self.segmentation_model: None or the wrapper's fields
    artifacts,           \* model artifact files: path -> version held (0: no file)
    versions,            \* number of models fitted so far (names the next one)
    executions,          \* position of each caller inside _retrain_segmentation_model
    \* ---- history of the scheduler's operations ----
    start_calls,         \* number of start() calls returned
    stop_calls,          \* number of stop() calls returned
    config_updated,      \* whether update_retraining_config() was ever called
    stop_signalled,      \* loop threads spawned before a stop() that has returned
    last_job,            \* how the retraining job run by the last step ended
    \* ---- event store and feature extraction (features/*.py) ----
    db_users,            \* app_schema.users: user_id -> the row
    db_events,           \* app_schema.events: user_id -> rows ORDER BY event_timestamp
    prediction_date,     \* the prediction_date of the last extraction
    features,            \* result of the last single-user extraction
    rows,                \* result of the last batch extraction
    ml_df,               \* result of the last ML-ready transform
    last_call,           \* the last extraction called: extractor and database fault
    \* ---- PredictionUpdater (prediction_updater.py) and the metrics cache ----
    user_metrics,        \* app_schema.user_metrics: the rows, in insertion order
    unique_user_id,      \* whether the schema keeps user_metrics.user_id unique
    purchase_model_file, \* whether a persisted purchase model exists
    purchase_prediction_model,  \* self.purchase_prediction_model: None or its state
    update_runs,         \* position and locals of every _update_predictions run
    produced,            \* history: user_id -> the probability predicted last
    arrivals,            \* number of events stored since the first state
    update_config,       \* self.update_config of the updater
    updater_is_running,  \* self.is_running of the updater
    updater_thread_pc,   \* position of the updater's loop thread in _run_scheduler
    \* ---- purchase-prediction API (api/purchase_prediction_api.py) ----
    api_purchase_model,  \* the module's global purchase_prediction_model
    response,            \* None, or what the last endpoint or transform returned or raised
    train_calls          \* history: number of calls of the model's train()

sched_vars == <<is_running, retraining_thread, thread_pc, jobs, retraining_config,
                segmentation_model, artifacts, versions, executions, start_calls,
                stop_calls,
                config_updated, stop_signalled, last_job>>
feat_vars == <<db_users, db_events, prediction_date, features, rows, ml_df, last_call>>
upd_vars == <<user_metrics, unique_user_id, purchase_model_file,
              purchase_prediction_model, update_runs, produced, arrivals,
              update_config, updater_is_running, updater_thread_pc>>
api_vars == <<api_purchase_model, response, train_calls>>
vars == <<sched_vars, feat_vars, upd_vars, api_vars>>

None == <<>>
Some(x) == <<x>>

\* ------------------------------------------------------------------ bounds
MaxCalls == 3        \* start() and stop() calls that are made, together
MaxVersions == 2     \* models that may ever be fitted

\* Every loop thread is spawned by a start() call.
Threads == 1..MaxCalls

(***************************************************************************)
(* RetrainingConfig.  __init__ installs one model type, 'segmentation'.    *)
(***************************************************************************)
DefaultSegmentation ==
    [enabled |-> TRUE, schedule |-> "daily", time |-> "02:00",
     day_of_week |-> 1, day_of_month |-> 1, min_users_for_retraining |-> 100,
     auto_optimize_params |-> TRUE, backup_previous_model |-> TRUE]

DefaultConfig == [segmentation |-> DefaultSegmentation]

\* The request bodies PUT /api/retraining/config is driven with.
ConfigUpdates ==
    { [segmentation |-> [time |-> "03:00"]],
      [segmentation |-> [DefaultSegmentation EXCEPT !.time = "03:00"]],
      [segmentation |-> [DefaultSegmentation EXCEPT !.enabled = FALSE]],
      [segmentation |-> [DefaultSegmentation EXCEPT !.schedule = "weekly"]],
      [segmentation |-> [DefaultSegmentation EXCEPT !.schedule = "monthly"]],
      [segmentation |-> [DefaultSegmentation EXCEPT !.schedule = "custom",
                                                    !.time = "03:00"]],
      [segmentation |-> [DefaultSegmentation EXCEPT !.auto_optimize_params = FALSE,
                                                    !.backup_previous_model = FALSE]],
      [purchase |-> [enabled |-> TRUE]] }

\* dict.update(other): every key of other replaces or adds the whole value.
dict_update(d, other) ==
    [k \in (DOMAIN d) \cup (DOMAIN other) |->
        IF k \in DOMAIN other THEN other[k] ELSE d[k]]

(***************************************************************************)
(* _setup_schedule: schedule.clear(), then one job per enabled model type. *)
(* The result is the job list left behind and whether an exception left    *)
(* the method: a KeyError for a key missing from the configuration, the    *)
(* schedule library's error for every().week.at(...), which accepts at()   *)
(* for day/hour/minute units only, and the AttributeError of               *)
(* every().month, no property of a job.                                    *)
(***************************************************************************)
RetrainJobAt(t) == [run |-> "retrain_segmentation_model", unit |-> "day", at |-> t]

setup_schedule(config) ==
    LET seg == config["segmentation"]
        has(k) == k \in DOMAIN seg
        raised == [jobs |-> <<>>, raised |-> TRUE]
    IN  IF ~has("enabled") THEN raised
        ELSE IF ~seg["enabled"] THEN [jobs |-> <<>>, raised |-> FALSE]
        ELSE IF ~has("schedule") THEN raised
        ELSE IF seg["schedule"] = "daily" THEN
                IF has("time")
                THEN [jobs |-> <<RetrainJobAt(seg["time"])>>, raised |-> FALSE]
                ELSE raised
        ELSE IF seg["schedule"] = "weekly" THEN raised
        ELSE IF seg["schedule"] = "monthly" THEN raised
        ELSE IF seg["schedule"] = "custom" THEN
                [jobs |-> <<RetrainJobAt("02:00")>>, raised |-> FALSE]
        ELSE [jobs |-> <<>>, raised |-> FALSE]

(***************************************************************************)
(* The segmentation model wrapper (models/user_segmentation.py): its       *)
(* fitted estimator (0: none, n: the n-th model fitted) and the path its   *)
(* save_model() writes.                                                    *)
(***************************************************************************)
Paths == {"primary", "backup"}
NewWrapper == [model |-> 0, model_path |-> "primary"]

\* save_model(): the fitted model is written to the wrapper's model_path.
save_model(w, files) == [files EXCEPT ![w.model_path] = w.model]

\* train(): fits a new estimator on the wrapper, then persists it.  It may
\* raise before the estimator is replaced ("train_fit") or while the new
\* estimator is saved ("train_save").
train(w, files, ver, fault) ==
    IF fault = "train_fit"
    THEN [w |-> w, files |-> files, versions |-> ver, raised |-> TRUE]
    ELSE LET fitted == [w EXCEPT !.model = ver + 1]
         IN  IF fault = "train_save"
             THEN [w |-> fitted, files |-> files, versions |-> ver + 1, raised |-> TRUE]
             ELSE [w |-> fitted, files |-> save_model(fitted, files),
                   versions |-> ver + 1, raised |-> FALSE]

(***************************************************************************)
(* _backup_current_model: a wrapper holding a fitted model is pointed at   *)
(* the backup path and saved; an error of the save is logged only.         *)
(***************************************************************************)
backup_current_model(sm, files, fault) ==
    IF sm # None /\ sm[1].model # 0
    THEN LET w == [sm[1] EXCEPT !.model_path = "backup"]
         IN  [sm |-> Some(w),
              files |-> IF fault = "backup_save" THEN files ELSE save_model(w, files)]
    ELSE [sm |-> sm, files |-> files]

\* One call the job makes, with the arguments that matter.
Step(name, args) == [step |-> name, args |-> args]

\* _restore_backup_model: logs "Restoring backup model..." and nothing else;
\* the call is noted in the job's steps.
restore_backup_model(st) == [st EXCEPT !.steps = Append(@, Step("restore", <<>>))]

\* optimize_parameters of the wrapper: the winning parameters of its search,
\* here one winner that differs from the defaults of the job.
optimize_parameters(w) == [best_params |-> [n_clusters |-> 3, algorithm |-> "dbscan"]]

\* The parameters train() gets with every option of the job ignored.
train_arguments_fixed(auto_optimize_params, optimization_result) ==
    [n_clusters |-> 5, algorithm |-> "kmeans"]

\* The parameters the job passes to train(): the winners of the optimization
\* when auto_optimize_params is set, else 5 clusters and kmeans.
train_arguments(auto_optimize_params, optimization_result) ==
    IF auto_optimize_params THEN optimization_result[1].best_params
    ELSE [n_clusters |-> 5, algorithm |-> "kmeans"]

\* _save_retraining_metrics: appends a line to the metrics log; an error is
\* logged only.
save_retraining_metrics(steps, fault) ==
    IF fault = "metrics_save" THEN steps ELSE Append(steps, Step("metrics", <<>>))

(***************************************************************************)
(* _retrain_segmentation_model with len(features_list) = n and the step    *)
(* `fault` raising (none: "none").  ended: "gated" (too few users), "ok",  *)
(* or "failed" (the except branch ran the restore step).                   *)
(***************************************************************************)
Faults ==
    {"none", "db", "backup_save", "optimize", "train_fit", "train_save", "metrics_save"}

\* The job with the user-count check placed after the backup step.
retrain_gate_after_backup(config, sm, files, ver, n, fault) ==
    LET seg == config["segmentation"]
        has(k) == k \in DOMAIN seg
        st(m, f, v, e) ==
            [sm |-> m, files |-> f, versions |-> v, ended |-> e, raised |-> FALSE,
             steps |-> <<>>]
        failed(m, f, v) == restore_backup_model(st(m, f, v, "failed"))
    IN  IF fault = "db" \/ ~has("backup_previous_model")
        THEN failed(sm, files, ver)
        ELSE LET b == IF seg["backup_previous_model"]
                      THEN backup_current_model(sm, files, fault)
                      ELSE [sm |-> sm, files |-> files]
                 w == IF b.sm = None THEN NewWrapper ELSE b.sm[1]
             IN  IF ~has("min_users_for_retraining")
                 THEN failed(b.sm, b.files, ver)
                 ELSE IF n < seg["min_users_for_retraining"]
                 THEN st(b.sm, b.files, ver, "gated")
                 ELSE IF ~has("auto_optimize_params")
                     \/ (seg["auto_optimize_params"] /\ fault = "optimize")
                 THEN failed(Some(w), b.files, ver)
                 ELSE LET t == train(w, b.files, ver, fault)
                      IN  IF t.raised
                          THEN failed(Some(t.w), t.files, t.versions)
                          ELSE st(Some(t.w), t.files, t.versions, "ok")

\* The try block of the job: raised tells whether it ended in an exception.
job_try_block(config, sm, files, ver, n, fault) ==
    LET seg == config["segmentation"]
        has(k) == k \in DOMAIN seg
        st(m, f, v, e, x, log) ==
            [sm |-> m, files |-> f, versions |-> v, ended |-> e, raised |-> x,
             steps |-> log]
        raise(m, f, v, log) == st(m, f, v, "failed", TRUE, log)
    IN  IF fault = "db" \/ ~has("min_users_for_retraining")
        THEN raise(sm, files, ver, <<>>)
        ELSE IF n < seg["min_users_for_retraining"]
        THEN st(sm, files, ver, "gated", FALSE, <<>>)
        ELSE IF ~has("backup_previous_model")
        THEN raise(sm, files, ver, <<>>)
        ELSE LET b == IF seg["backup_previous_model"]
                      THEN backup_current_model(sm, files, fault)
                      ELSE [sm |-> sm, files |-> files]
                 backed == IF seg["backup_previous_model"] /\ sm # None /\ sm[1].model # 0
                           THEN <<Step("backup", <<>>)>> ELSE <<>>
                 w == IF b.sm = None THEN NewWrapper ELSE b.sm[1]
             IN  IF ~has("auto_optimize_params")
                 THEN raise(Some(w), b.files, ver, backed)
                 ELSE IF seg["auto_optimize_params"] /\ fault = "optimize"
                 THEN raise(Some(w), b.files, ver,
                            Append(backed, Step("optimize", <<>>)))
                 ELSE LET optimized == IF seg["auto_optimize_params"]
                                       THEN Some(optimize_parameters(w)) ELSE None
                          chosen == train_arguments(seg["auto_optimize_params"], optimized)
                          log == backed
                                   \o (IF optimized = None THEN <<>>
                                       ELSE <<Step("optimize", <<>>)>>)
                                   \o <<Step("train", chosen)>>
                          t == train(w, b.files, ver, fault)
                      IN  IF t.raised
                          THEN raise(Some(t.w), t.files, t.versions, log)
                          ELSE st(Some(t.w), t.files, t.versions, "ok", FALSE,
                                  save_retraining_metrics(log, fault))

\* The job's try block left without its except clause.
except_clause_missing(r) == r

\* except Exception of the job: the error is logged and the restore step
\* called; nothing is raised again.
except_clause(r) ==
    IF r.raised THEN restore_backup_model([r EXCEPT !.raised = FALSE]) ELSE r

retrain_segmentation_model(config, sm, files, ver, n, fault) ==
    except_clause(job_try_block(config, sm, files, ver, n, fault))

\* The numbers of users the extraction returns to the job.
UserCounts == {99, 100}

(***************************************************************************)
(* The scheduler's operations.                                             *)
(***************************************************************************)
Live == {"setup", "loop"}
Spawned == {t \in Threads : thread_pc[t] # "unborn"}
LiveThreads == {t \in Threads : thread_pc[t] \in Live}

model_vars == <<segmentation_model, artifacts, versions, executions>>
history_vars == <<start_calls, stop_calls, config_updated, stop_signalled>>

\* start() without its `if self.is_running: return`.
start_without_guard ==
    /\ start_calls + stop_calls < MaxCalls
    /\ start_calls' = start_calls + 1
    /\ LET t == Cardinality(Spawned) + 1
       IN  /\ is_running' = TRUE
           /\ thread_pc' = [thread_pc EXCEPT ![t] = "setup"]
           /\ retraining_thread' = Some(t)
    /\ last_job' = "none"
    /\ UNCHANGED <<jobs, retraining_config, model_vars, stop_calls, config_updated,
                   stop_signalled>>
    /\ UNCHANGED <<feat_vars, upd_vars, api_vars>>

\* start(): a no-op with a warning while is_running; otherwise sets the flag
\* and spawns a daemon thread on _run_scheduler.
start ==
    /\ start_calls + stop_calls < MaxCalls
    /\ start_calls' = start_calls + 1
    /\ IF is_running
       THEN UNCHANGED <<is_running, retraining_thread, thread_pc>>
       ELSE LET t == Cardinality(Spawned) + 1
            IN  /\ is_running' = TRUE
                /\ thread_pc' = [thread_pc EXCEPT ![t] = "setup"]
                /\ retraining_thread' = Some(t)
    /\ last_job' = "none"
    /\ UNCHANGED <<jobs, retraining_config, model_vars, stop_calls, config_updated,
                   stop_signalled>>
    /\ UNCHANGED <<feat_vars, upd_vars, api_vars>>

\* stop(): clears the flag and joins the last thread for at most 5 seconds;
\* the thread, asleep for 60 seconds or inside a job, may outlive the join.
stop ==
    /\ start_calls + stop_calls < MaxCalls
    /\ stop_calls' = stop_calls + 1
    /\ is_running' = FALSE
    /\ stop_signalled' = stop_signalled \cup LiveThreads
    /\ last_job' = "none"
    /\ UNCHANGED <<retraining_thread, thread_pc, jobs, retraining_config, model_vars,
                   start_calls, config_updated>>
    /\ UNCHANGED <<feat_vars, upd_vars, api_vars>>

\* One call of the job, by a loop thread or by trigger_retraining.
run_job(n, fault) ==
    LET r == retrain_segmentation_model(retraining_config, segmentation_model,
                                        artifacts, versions, n, fault)
    IN  /\ versions < MaxVersions
        /\ segmentation_model' = r.sm
        /\ artifacts' = r.files
        /\ versions' = r.versions
        /\ last_job' = r.ended
        /\ UNCHANGED executions

\* _run_scheduler, first statement: _setup_schedule() outside any try, so an
\* exception ends the thread.
loop_setup(t) ==
    /\ thread_pc[t] = "setup"
    /\ LET r == setup_schedule(retraining_config)
       IN  /\ jobs' = r.jobs
           /\ thread_pc' = [thread_pc EXCEPT ![t] = IF r.raised THEN "dead" ELSE "loop"]
    /\ last_job' = "none"
    /\ UNCHANGED <<is_running, retraining_thread, retraining_config, model_vars,
                   history_vars>>
    /\ UNCHANGED <<feat_vars, upd_vars, api_vars>>

\* What schedule.run_pending() does in one iteration: nothing is due, the
\* registered job is due and runs, or an exception escapes it.
Ticks == {"idle", "due", "raises"}

\* The iteration without its try/except: an exception ends the thread.
loop_evaluate_unprotected(t) ==
    /\ thread_pc[t] = "loop"
    /\ is_running
    /\ \E tick \in Ticks :
          IF tick = "due" /\ jobs # <<>>
          THEN /\ \E n \in UserCounts, fault \in Faults : run_job(n, fault)
               /\ UNCHANGED thread_pc
          ELSE IF tick = "raises"
          THEN /\ last_job' = "raised"
               /\ thread_pc' = [thread_pc EXCEPT ![t] = "dead"]
               /\ UNCHANGED model_vars
          ELSE last_job' = "none" /\ UNCHANGED <<model_vars, thread_pc>>
    /\ UNCHANGED <<is_running, retraining_thread, jobs, retraining_config,
                   history_vars>>
    /\ UNCHANGED <<feat_vars, upd_vars, api_vars>>

\* One iteration of `while self.is_running`: schedule.run_pending() runs the
\* registered job when it is due, then the thread sleeps 60 seconds; an
\* exception is caught and logged, and the thread sleeps 60 seconds as well.
loop_evaluate(t) ==
    /\ thread_pc[t] = "loop"
    /\ is_running
    /\ \E tick \in Ticks :
          IF tick = "due" /\ jobs # <<>>
          THEN \E n \in UserCounts, fault \in Faults : run_job(n, fault)
          ELSE IF tick = "raises"
          THEN last_job' = "raised" /\ UNCHANGED model_vars
          ELSE last_job' = "none" /\ UNCHANGED model_vars
    /\ UNCHANGED <<is_running, retraining_thread, thread_pc, jobs, retraining_config,
                   history_vars>>
    /\ UNCHANGED <<feat_vars, upd_vars, api_vars>>

\* The loop condition read as false: the thread ends.
loop_exit(t) ==
    /\ thread_pc[t] = "loop"
    /\ ~is_running
    /\ thread_pc' = [thread_pc EXCEPT ![t] = "exited"]
    /\ last_job' = "none"
    /\ UNCHANGED <<is_running, retraining_thread, jobs, retraining_config, model_vars,
                   history_vars>>
    /\ UNCHANGED <<feat_vars, upd_vars, api_vars>>

\* trigger_retraining(model_type): the job, on the caller's thread.
trigger_retraining(model_type) ==
    /\ IF model_type = "segmentation"
       THEN \E n \in UserCounts, fault \in Faults : run_job(n, fault)
       ELSE last_job' = "none" /\ UNCHANGED model_vars
    /\ UNCHANGED <<is_running, retraining_thread, thread_pc, jobs, retraining_config,
                   history_vars>>
    /\ UNCHANGED <<feat_vars, upd_vars, api_vars>>

\* update_retraining_config(config): dict.update, then _setup_schedule();
\* an exception of either is logged and swallowed.
update_retraining_config(config) ==
    /\ retraining_config' = dict_update(retraining_config, config)
    /\ jobs' = setup_schedule(retraining_config').jobs
    /\ config_updated' = TRUE
    /\ last_job' = "none"
    /\ UNCHANGED <<is_running, retraining_thread, thread_pc, model_vars, start_calls,
                   stop_calls, stop_signalled>>
    /\ UNCHANGED <<feat_vars, upd_vars, api_vars>>

ModelTypes == {"segmentation", "purchase"}

\* The event store and the extractors take no part in the scheduler's runs.
FeatIdle ==
    /\ db_users = <<>>
    /\ db_events = <<>>
    /\ prediction_date = 0
    /\ features = None
    /\ rows = <<>>
    /\ ml_df = <<>>
    /\ last_call = None

\* The prediction updater takes no part either.
UpdRuns == {"scheduled", "triggered"}

IdleRun == [pc |-> "idle", users |-> <<>>, predictions |-> <<>>, existing |-> FALSE]

batch_size == 1000
update_threshold_days == 1
max_users_per_update == 10000

\* PredictionUpdater.__init__: the configuration, the flag and no thread.
DefaultUpdateConfig ==
    [enabled |-> TRUE, schedule |-> "daily", time |-> "03:00",
     batch_size |-> batch_size, update_threshold_days |-> update_threshold_days,
     max_users_per_update |-> max_users_per_update, backup_predictions |-> TRUE]

UpdaterConstructed ==
    /\ update_config = DefaultUpdateConfig
    /\ updater_is_running = FALSE
    /\ updater_thread_pc = "unborn"

UpdIdle ==
    /\ UpdaterConstructed
    /\ user_metrics = <<>>
    /\ unique_user_id = FALSE
    /\ purchase_model_file = FALSE
    /\ purchase_prediction_model = None
    /\ update_runs = [r \in UpdRuns |-> IdleRun]
    /\ produced = <<>>
    /\ arrivals = 0

\* The API's endpoints are not called.
ApiIdle ==
    /\ api_purchase_model = None
    /\ response = None
    /\ train_calls = 0

\* Who calls _retrain_segmentation_model: a loop thread through
\* schedule.run_pending(), the trigger endpoint on its own thread, and the
\* background task the trigger endpoint adds.
Executors == {"loop", "trigger", "background_task"}

SchedIdle ==
    /\ executions = [c \in Executors |-> "idle"]
    /\ is_running = FALSE
    /\ retraining_thread = None
    /\ thread_pc = [t \in Threads |-> "unborn"]
    /\ jobs = <<>>
    /\ retraining_config = DefaultConfig
    /\ segmentation_model = None
    /\ artifacts = [p \in Paths |-> 0]
    /\ versions = 0
    /\ start_calls = 0
    /\ stop_calls = 0
    /\ config_updated = FALSE
    /\ stop_signalled = {}
    /\ last_job = "none"

SchedInit == SchedIdle /\ FeatIdle /\ UpdIdle /\ ApiIdle

SchedNext ==
    \/ start
    \/ stop
    \/ \E t \in Threads : loop_setup(t)
    \/ \E t \in Threads : loop_evaluate(t)
    \/ \E t \in Threads : loop_exit(t)
    \/ \E m \in ModelTypes : trigger_retraining(m)
    \/ \E c \in ConfigUpdates : update_retraining_config(c)

SchedSpec == SchedInit /\ [][SchedNext]_vars

(***************************************************************************)
(* Claims about the scheduler.                                             *)
(***************************************************************************)

\* C1: start() is idempotent.  Every loop thread beyond the first is owed to
\* a stop() in between, so start() calls with no stop() between them leave
\* exactly one loop thread, and that thread, having set up the schedule of
\* the configuration the scheduler was built with, has registered exactly
\* one retraining job; the schedule never holds the job twice.
C1_StartIdempotent ==
    /\ Cardinality(Spawned) <= stop_calls + 1
    /\ Len(jobs) <= 1
    /\ (start_calls >= 1 /\ stop_calls = 0) =>
          /\ Spawned = {1}
          /\ retraining_thread = Some(1)
          /\ ~config_updated => thread_pc[1] \in Live
          /\ (~config_updated /\ thread_pc[1] = "loop") =>
                jobs = <<RetrainJobAt("02:00")>>

\* C1 witness: start() was called twice with no stop(), and the one loop
\* thread has set up its schedule.
C1_Witness ==
    /\ start_calls = 2
    /\ stop_calls = 0
    /\ ~config_updated
    /\ thread_pc[1] = "loop"
    /\ Len(jobs) = 1

\* C2: a loop thread that a returned stop() has signalled never evaluates
\* the schedule (nor runs a job) again, whatever follows.
C2_StoppedLoopNeverEvaluates ==
    [][\A t \in Threads : t \in stop_signalled => ~loop_evaluate(t)]_vars

\* What C4 says update_retraining_config leaves behind: per model type, the
\* fields named replace the old ones and the others stay ...
merged_config(d, other) ==
    [k \in (DOMAIN d) \cup (DOMAIN other) |->
        IF k \in DOMAIN d /\ k \in DOMAIN other
        THEN dict_update(d[k], other[k])
        ELSE IF k \in DOMAIN other THEN other[k] ELSE d[k]]

\* ... and the schedule holds the jobs that configuration implies: the
\* retraining job registered by _setup_schedule for it.
implied_jobs(config) == setup_schedule(config).jobs

\* C4: update_retraining_config(config) merges config into the live
\* configuration field by field and rebuilds the schedule from the result.
C4_UpdateMergesFields ==
    [][\A c \in ConfigUpdates :
          update_retraining_config(c) =>
              /\ retraining_config' = merged_config(retraining_config, c)
              /\ jobs' = implied_jobs(merged_config(retraining_config, c))]_vars

\* The fitted estimator the scheduler holds in memory (0: none).
model_held(sm) == IF sm = None THEN 0 ELSE sm[1].model

\* C5: after a retraining job that failed, the model held in memory and the
\* model stored at the primary artifact path are those from before the job.
C5_FailedJobRestoresModel ==
    [][last_job' = "failed" =>
          /\ model_held(segmentation_model') = model_held(segmentation_model)
          /\ artifacts'["primary"] = artifacts["primary"]]_vars

(***************************************************************************)
(* The event store and the feature extractors (features/*.py).             *)
(*                                                                         *)
(* A timestamp is a number of seconds since a midnight; a timedelta's      *)
(* .days is the floor of its seconds over 86400, a datetime's .date() the  *)
(* day its seconds fall in.  A Python float is kept in thousandths         *)
(* (fixed-point, rounded down).                                            *)
(***************************************************************************)
SecondsPerDay == 86400
SessionGap == 1800       \* "if time_diff <= 1800:  # 30 minutes"
NoEventSentinel == 999   \* "return 999" of the purchase and churn extractors
SentinelCap == 365       \* ".replace(999, 365)" of the ML-ready transforms

timedelta(days) == days * SecondsPerDay
days_of(seconds) == seconds \div SecondsPerDay
date_of(ts) == ts \div SecondsPerDay
ratio(num, den) == (num * 1000) \div den

\* ------------------------------------------------------------------ bounds
MaxEvents == 3       \* events in one user's history
MaxUsers == 2        \* users of a batch extraction

\* The reference instant (noon of a Friday, day 0 being a Monday) and the
\* wall clock one day later.
RefDate == timedelta(200) + 43200
WallClock == RefDate + timedelta(1)
PredictionDates == {RefDate, WallClock}

\* Instants at which the modelled events happen: one in each gap between
\* the window bounds 90/60/30/14/7 days before RefDate, one on the 7-day
\* bound, three around the session gap, one after RefDate.
EventTimes ==
    { RefDate - timedelta(100), RefDate - timedelta(75), RefDate - timedelta(45),
      RefDate - timedelta(20), RefDate - timedelta(10), RefDate - timedelta(7),
      RefDate - (2 * SessionGap + 1), RefDate - (SessionGap + 1), RefDate,
      RefDate + (SecondsPerDay \div 2) }

\* properties of an event: whether the JSON text parses, and the value
\* properties.get('amount') when it is a number.
Props(malformed, amount) == [malformed |-> malformed, amount |-> amount]
NoProps == Props(FALSE, None)

Event(type, ts, props) ==
    [event_type |-> type, event_timestamp |-> ts, properties |-> props]

\* What one event may be, by type and payload.
EventShapes ==
    { <<"view", NoProps>>, <<"purchase", Props(FALSE, Some(500))>>,
      <<"purchase", NoProps>> }
MalformedPurchase == <<"purchase", Props(TRUE, None)>>

\* The histories of at most n events of the given shapes, in timestamp order
\* (the queries ORDER BY event_timestamp).
RECURSIVE Histories(_, _)
Histories(n, shapes) ==
    IF n = 0 THEN {<<>>}
    ELSE LET shorter == Histories(n - 1, shapes)
         IN  shorter \cup
             UNION { { Append(h, Event(sh[1], ts, sh[2])) :
                         sh \in shapes,
                         ts \in {t \in EventTimes :
                                    h = <<>> \/ t > h[Len(h)].event_timestamp} } :
                     h \in shorter }

\* ---- helpers shared by the extractors (each extractor has its own copy of
\* ---- the code; the purchase extractor's is the one modelled here)
in_window(event, prediction_date_, days) ==
    /\ prediction_date_ - timedelta(days) <= event.event_timestamp
    /\ event.event_timestamp <= prediction_date_

window_events(events, prediction_date_, days) ==
    SelectSeq(events, LAMBDA e : in_window(e, prediction_date_, days))

count_events_in_window(events, prediction_date_, days) ==
    Len(window_events(events, prediction_date_, days))

count_unique_days_in_window(events, prediction_date_, days) ==
    LET w == window_events(events, prediction_date_, days)
    IN  Cardinality({date_of(w[i].event_timestamp) : i \in DOMAIN w})

\* The typed window count with the window test turned round (events older
\* than the window's start).
count_events_by_type_before_window(events, event_type, prediction_date_, days) ==
    Len(SelectSeq(events, LAMBDA e :
            /\ e.event_type = event_type
            /\ e.event_timestamp <= prediction_date_ - timedelta(days)))

count_events_by_type_in_window(events, event_type, prediction_date_, days) ==
    Len(SelectSeq(events, LAMBDA e : e.event_type = event_type
                                      /\ in_window(e, prediction_date_, days)))

count_events_by_type(events, event_type) ==
    Len(SelectSeq(events, LAMBDA e : e.event_type = event_type))

calculate_unique_days_active(events) ==
    Cardinality({date_of(events[i].event_timestamp) : i \in DOMAIN events})

purchases_of(events) == SelectSeq(events, LAMBDA e : e.event_type = "purchase")

\* json.loads(properties) raises for a purchase whose payload does not parse.
total_spent_raises(events) ==
    \E i \in DOMAIN events :
        events[i].event_type = "purchase" /\ events[i].properties.malformed

RECURSIVE sum_amounts(_)
sum_amounts(ps) ==
    IF ps = <<>> THEN 0
    ELSE (IF Head(ps).properties.amount = None THEN 0
          ELSE Head(ps).properties.amount[1]) + sum_amounts(Tail(ps))

calculate_total_spent(events) == sum_amounts(purchases_of(events))

\* The average with the number of all events as its divisor.
avg_order_value_over_all_events(events) ==
    IF purchases_of(events) = <<>> THEN 0
    ELSE ratio(calculate_total_spent(events), Len(events))

calculate_avg_order_value(events) ==
    IF purchases_of(events) = <<>> THEN 0
    ELSE ratio(calculate_total_spent(events), Len(purchases_of(events)))

RECURSIVE max_timestamp(_)
max_timestamp(events) ==
    IF Len(events) = 1 THEN events[1].event_timestamp
    ELSE LET m == max_timestamp(Tail(events))
         IN  IF events[1].event_timestamp >= m THEN events[1].event_timestamp ELSE m

\* The purchase recency without its sentinel (0 for a user without purchases).
days_since_last_purchase_without_sentinel(events, prediction_date_) ==
    IF purchases_of(events) = <<>> THEN 0
    ELSE days_of(prediction_date_ - max_timestamp(purchases_of(events)))

calculate_days_since_last_purchase(events, prediction_date_) ==
    IF purchases_of(events) = <<>> THEN NoEventSentinel
    ELSE days_of(prediction_date_ - max_timestamp(purchases_of(events)))

\* ---- sessions
\* The purchase (and user) extractor's grouping keeps only sessions of more
\* than one event: the sum of their durations and their number.
RECURSIVE long_sessions(_, _, _, _, _)
long_sessions(w, i, first, size, acc) ==
    LET closed == IF size > 1
                  THEN [total |-> acc.total + (w[i - 1].event_timestamp - first),
                        n |-> acc.n + 1]
                  ELSE acc
    IN  IF i > Len(w) THEN closed
        ELSE IF w[i].event_timestamp - w[i - 1].event_timestamp <= SessionGap
             THEN long_sessions(w, i + 1, first, size + 1, acc)
             ELSE long_sessions(w, i + 1, w[i].event_timestamp, 1, closed)

avg_session_duration(w) ==
    IF Len(w) < 2 THEN 0
    ELSE LET r == long_sessions(w, 2, w[1].event_timestamp, 1, [total |-> 0, n |-> 0])
         IN  IF r.n = 0 THEN 0 ELSE ratio(r.total, r.n)

calculate_avg_session_duration_in_window(events, prediction_date_, days) ==
    avg_session_duration(window_events(events, prediction_date_, days))

calculate_activity_trend(events, prediction_date_, short_window, long_window) ==
    LET short_count == count_events_in_window(events, prediction_date_, short_window)
        long_count == count_events_in_window(events, prediction_date_, long_window)
    IN  IF long_count = 0 THEN 0 ELSE ratio(short_count, long_count)

calculate_purchase_trend(events, prediction_date_, short_window, long_window) ==
    LET short_count ==
            count_events_by_type_in_window(events, "purchase", prediction_date_, short_window)
        long_count ==
            count_events_by_type_in_window(events, "purchase", prediction_date_, long_window)
    IN  IF long_count = 0 THEN 0 ELSE ratio(short_count, long_count)

\* ---- the churn extractor's own code
churn_count_events_in_window(events, prediction_date_, days) ==
    Len(SelectSeq(events, LAMBDA e :
            /\ prediction_date_ - timedelta(days) <= e.event_timestamp
            /\ e.event_timestamp <= prediction_date_))

churn_count_unique_days_in_window(events, prediction_date_, days) ==
    Cardinality({date_of(events[i].event_timestamp) :
                    i \in {j \in DOMAIN events :
                              /\ prediction_date_ - timedelta(days)
                                     <= events[j].event_timestamp
                              /\ events[j].event_timestamp <= prediction_date_}})

churn_count_events_by_type_in_window(events, event_type, prediction_date_, days) ==
    Len(SelectSeq(events, LAMBDA e :
            /\ e.event_type = event_type
            /\ prediction_date_ - timedelta(days) <= e.event_timestamp
            /\ e.event_timestamp <= prediction_date_))

churn_calculate_days_since_last_activity(events, prediction_date_) ==
    IF events = <<>> THEN NoEventSentinel
    ELSE days_of(prediction_date_ - max_timestamp(events))

churn_calculate_avg_order_value(events) ==
    IF purchases_of(events) = <<>> THEN 0
    ELSE ratio(calculate_total_spent(events), Len(purchases_of(events)))

churn_calculate_days_since_last_purchase(events, prediction_date_) ==
    IF purchases_of(events) = <<>> THEN NoEventSentinel
    ELSE days_of(prediction_date_ - max_timestamp(purchases_of(events)))

\* The grouping with a gap of exactly SessionGap splitting the session.
RECURSIVE group_from_strict(_, _, _, _)
group_from_strict(events, i, sessions, current_session) ==
    IF i > Len(events) THEN Append(sessions, current_session)
    ELSE IF events[i].event_timestamp - events[i - 1].event_timestamp < SessionGap
         THEN group_from_strict(events, i + 1, sessions,
                                Append(current_session, events[i]))
         ELSE group_from_strict(events, i + 1, Append(sessions, current_session),
                                <<events[i]>>)

RECURSIVE group_from(_, _, _, _)
group_from(events, i, sessions, current_session) ==
    IF i > Len(events) THEN Append(sessions, current_session)
    ELSE IF events[i].event_timestamp - events[i - 1].event_timestamp <= SessionGap
         THEN group_from(events, i + 1, sessions, Append(current_session, events[i]))
         ELSE group_from(events, i + 1, Append(sessions, current_session), <<events[i]>>)

group_events_into_sessions(events) ==
    IF Len(events) < 2 THEN (IF events # <<>> THEN <<events>> ELSE <<>>)
    ELSE group_from(events, 2, <<>>, <<events[1]>>)

count_sessions_in_window(events, prediction_date_, days) ==
    LET w == window_events(events, prediction_date_, days)
    IN  IF Len(w) < 2 THEN Len(w) ELSE Len(group_events_into_sessions(w))

RECURSIVE sum_durations(_)
sum_durations(sessions) ==
    IF sessions = <<>> THEN 0
    ELSE LET s == Head(sessions)
         IN  (s[Len(s)].event_timestamp - s[1].event_timestamp)
                 + sum_durations(Tail(sessions))

churn_calculate_avg_session_duration_in_window(events, prediction_date_, days) ==
    LET w == window_events(events, prediction_date_, days)
    IN  IF Len(w) < 2 THEN 0
        ELSE ratio(sum_durations(group_events_into_sessions(w)),
                   Len(group_events_into_sessions(w)))

RECURSIVE sum_intervals(_)
sum_intervals(ps) ==
    IF Len(ps) < 2 THEN 0
    ELSE days_of(ps[2].event_timestamp - ps[1].event_timestamp) + sum_intervals(Tail(ps))

\* Thousandths; 999.0 when there are fewer than two purchases.
calculate_avg_days_between_purchases(events) ==
    IF Len(purchases_of(events)) < 2 THEN NoEventSentinel * 1000
    ELSE ratio(sum_intervals(purchases_of(events)), Len(purchases_of(events)) - 1)

\* total_spent + total_events * 0.1, in thousandths.
calculate_customer_lifetime_value(events) ==
    calculate_total_spent(events) * 1000 + Len(events) * 100

\* ---- the segmentation extractor's own code (it reads the wall clock)
user_calculate_days_since_last_activity(events, now) ==
    IF events = <<>> THEN 0
    ELSE days_of(now - max_timestamp(events))

calculate_avg_events_per_day(events, registration_date, now) ==
    IF events = <<>> THEN 0
    ELSE IF days_of(now - registration_date) = 0 THEN Len(events) * 1000
         ELSE ratio(Len(events), days_of(now - registration_date))

\* ---- database access
\* A row of app_schema.users; registration_date may be NULL and profile_data
\* may be text that does not parse.
UserRow(registration_date, profile_malformed) ==
    [registration_date |-> registration_date, profile_malformed |-> profile_malformed]
RegisteredAt == RefDate - timedelta(120)
GoodUser == UserRow(Some(RegisteredAt), FALSE)

\* How the database misbehaves during one user's extraction.
DbFaults == {"none", "user_lookup", "event_fetch"}

\* _get_user_info of the purchase and churn extractors: None on a failed
\* query and for an unknown user.
get_user_info(users, user_id, fault) ==
    IF fault = "user_lookup" THEN None
    ELSE IF user_id \in DOMAIN users THEN Some(users[user_id]) ELSE None

\* _get_user_info of the segmentation extractor also parses profile_data
\* inside its try block.
user_get_user_info(users, user_id, fault) ==
    IF fault = "user_lookup" THEN None
    ELSE IF user_id \notin DOMAIN users THEN None
    ELSE IF users[user_id].profile_malformed THEN None
    ELSE Some(users[user_id])

\* _get_user_events: every event of the user, [] on a failed query.
get_user_events(store, user_id, fault) ==
    IF fault = "event_fetch" THEN <<>>
    ELSE IF user_id \in DOMAIN store THEN store[user_id] ELSE <<>>

weekday(ts) == date_of(ts) % 7

\* ---- the extractors
\* The bot_command, message, callback_query and add_to_cart window counts
\* are further instances of the typed window count and are left out, as are
\* peak_hour and the weekend ratios.
extract_user_purchase_features(users, store, user_id, prediction_date_, fault) ==
    LET user_info == get_user_info(users, user_id, fault)
        events == get_user_events(store, user_id, fault)
    IN  IF user_info = None THEN None
        ELSE IF user_info[1].registration_date = None \/ total_spent_raises(events)
        THEN None
        ELSE Some([
          user_id |-> user_id,
          days_since_registration |->
              days_of(prediction_date_ - user_info[1].registration_date[1]),
          total_events |-> Len(events),
          unique_days_active |-> calculate_unique_days_active(events),
          events_last_7_days |-> count_events_in_window(events, prediction_date_, 7),
          events_last_14_days |-> count_events_in_window(events, prediction_date_, 14),
          events_last_30_days |-> count_events_in_window(events, prediction_date_, 30),
          unique_days_active_last_7_days |->
              count_unique_days_in_window(events, prediction_date_, 7),
          unique_days_active_last_14_days |->
              count_unique_days_in_window(events, prediction_date_, 14),
          unique_days_active_last_30_days |->
              count_unique_days_in_window(events, prediction_date_, 30),
          product_views_last_7_days |->
              count_events_by_type_in_window(events, "view", prediction_date_, 7),
          product_views_last_14_days |->
              count_events_by_type_in_window(events, "view", prediction_date_, 14),
          product_views_last_30_days |->
              count_events_by_type_in_window(events, "view", prediction_date_, 30),
          total_purchases |-> count_events_by_type(events, "purchase"),
          purchases_last_7_days |->
              count_events_by_type_in_window(events, "purchase", prediction_date_, 7),
          purchases_last_14_days |->
              count_events_by_type_in_window(events, "purchase", prediction_date_, 14),
          purchases_last_30_days |->
              count_events_by_type_in_window(events, "purchase", prediction_date_, 30),
          purchases_last_60_days |->
              count_events_by_type_in_window(events, "purchase", prediction_date_, 60),
          purchases_last_90_days |->
              count_events_by_type_in_window(events, "purchase", prediction_date_, 90),
          total_spent |-> calculate_total_spent(events),
          avg_order_value |-> calculate_avg_order_value(events),
          days_since_last_purchase |->
              calculate_days_since_last_purchase(events, prediction_date_),
          avg_session_duration_last_7_days |->
              calculate_avg_session_duration_in_window(events, prediction_date_, 7),
          avg_session_duration_last_14_days |->
              calculate_avg_session_duration_in_window(events, prediction_date_, 14),
          activity_trend_7d_vs_14d |->
              calculate_activity_trend(events, prediction_date_, 7, 14),
          activity_trend_14d_vs_30d |->
              calculate_activity_trend(events, prediction_date_, 14, 30),
          purchase_trend_30d_vs_60d |->
              calculate_purchase_trend(events, prediction_date_, 30, 60),
          is_weekend |-> weekday(prediction_date_) >= 5,
          feature_extraction_date |-> prediction_date_])

extract_user_churn_features(users, store, user_id, prediction_date_, fault) ==
    LET user_info == get_user_info(users, user_id, fault)
        events == get_user_events(store, user_id, fault)
    IN  IF user_info = None THEN None
        ELSE IF user_info[1].registration_date = None \/ total_spent_raises(events)
        THEN None
        ELSE Some([
          user_id |-> user_id,
          days_since_registration |->
              days_of(prediction_date_ - user_info[1].registration_date[1]),
          total_events |-> Len(events),
          unique_days_active |-> calculate_unique_days_active(events),
          events_last_7_days |-> churn_count_events_in_window(events, prediction_date_, 7),
          events_last_14_days |-> churn_count_events_in_window(events, prediction_date_, 14),
          events_last_30_days |-> churn_count_events_in_window(events, prediction_date_, 30),
          events_last_60_days |-> churn_count_events_in_window(events, prediction_date_, 60),
          unique_days_active_last_7_days |->
              churn_count_unique_days_in_window(events, prediction_date_, 7),
          unique_days_active_last_14_days |->
              churn_count_unique_days_in_window(events, prediction_date_, 14),
          unique_days_active_last_30_days |->
              churn_count_unique_days_in_window(events, prediction_date_, 30),
          unique_days_active_last_60_days |->
              churn_count_unique_days_in_window(events, prediction_date_, 60),
          days_since_last_activity |->
              churn_calculate_days_since_last_activity(events, prediction_date_),
          product_views_last_7_days |->
              churn_count_events_by_type_in_window(events, "view", prediction_date_, 7),
          product_views_last_14_days |->
              churn_count_events_by_type_in_window(events, "view", prediction_date_, 14),
          product_views_last_30_days |->
              churn_count_events_by_type_in_window(events, "view", prediction_date_, 30),
          total_purchases |-> count_events_by_type(events, "purchase"),
          purchases_last_7_days |->
              churn_count_events_by_type_in_window(events, "purchase", prediction_date_, 7),
          purchases_last_14_days |->
              churn_count_events_by_type_in_window(events, "purchase", prediction_date_, 14),
          purchases_last_30_days |->
              churn_count_events_by_type_in_window(events, "purchase", prediction_date_, 30),
          purchases_last_60_days |->
              churn_count_events_by_type_in_window(events, "purchase", prediction_date_, 60),
          total_spent |-> calculate_total_spent(events),
          avg_order_value |-> churn_calculate_avg_order_value(events),
          days_since_last_purchase |->
              churn_calculate_days_since_last_purchase(events, prediction_date_),
          avg_session_duration_last_7_days |->
              churn_calculate_avg_session_duration_in_window(events, prediction_date_, 7),
          avg_session_duration_last_14_days |->
              churn_calculate_avg_session_duration_in_window(events, prediction_date_, 14),
          avg_session_duration_last_30_days |->
              churn_calculate_avg_session_duration_in_window(events, prediction_date_, 30),
          session_count_last_7_days |-> count_sessions_in_window(events, prediction_date_, 7),
          session_count_last_14_days |-> count_sessions_in_window(events, prediction_date_, 14),
          session_count_last_30_days |-> count_sessions_in_window(events, prediction_date_, 30),
          avg_days_between_purchases |-> calculate_avg_days_between_purchases(events),
          customer_lifetime_value |-> calculate_customer_lifetime_value(events),
          feature_extraction_date |-> prediction_date_])

\* UserFeatureExtractor.extract_user_features; now is datetime.now().
extract_user_features(users, store, user_id, now, fault) ==
    LET user_info == user_get_user_info(users, user_id, fault)
        events == get_user_events(store, user_id, fault)
    IN  IF user_info = None THEN None
        ELSE IF user_info[1].registration_date = None \/ total_spent_raises(events)
        THEN None
        ELSE Some([
          user_id |-> user_id,
          days_since_registration |->
              days_of(now - user_info[1].registration_date[1]),
          total_events |-> Len(events),
          unique_days_active |-> calculate_unique_days_active(events),
          avg_events_per_day |->
              calculate_avg_events_per_day(events, user_info[1].registration_date[1], now),
          days_since_last_activity |-> user_calculate_days_since_last_activity(events, now),
          avg_session_duration |-> avg_session_duration(events),
          purchase_count |-> count_events_by_type(events, "purchase"),
          total_spent |-> calculate_total_spent(events),
          avg_order_value |-> calculate_avg_order_value(events),
          product_views_count |-> count_events_by_type(events, "view"),
          feature_extraction_date |-> now])

\* ---- the ML-ready transforms
\* np.log1p on thousandths, to thousandths: ln(1 + x) = k ln 2 + ln m with
\* 1 <= m < 2, and ln m = 2 artanh((m - 1) / (m + 1)) by its series (the
\* last digit may be off by one or two).
RECURSIVE halvings(_)
halvings(y) == IF y < 2000 THEN [k |-> 0, m |-> y]
               ELSE LET r == halvings(y \div 2) IN [k |-> r.k + 1, m |-> r.m]

log1p(x) ==
    LET r == halvings(1000 + x)
        z == ((r.m - 1000) * 10000) \div (r.m + 1000)
        z3 == (((z * z) \div 10000) * z) \div 10000
        z5 == (((z3 * z) \div 10000) * z) \div 10000
    IN  r.k * 693 + (2 * (z + z3 \div 3 + z5 \div 5)) \div 10

replace(value, old, new) == IF value = old THEN new ELSE value

\* One row of prepare_purchase_features_for_ml's result.  fillna(0) leaves
\* the extractor's values alone: none of them is NaN.
prepare_purchase_row(row) ==
    [row EXCEPT !.is_weekend = IF @ THEN 1 ELSE 0,
                !.total_events = log1p(@ * 1000),
                !.total_spent = log1p(@ * 1000),
                !.avg_order_value = log1p(@),
                !.days_since_last_purchase = replace(@, NoEventSentinel, SentinelCap)]

prepare_purchase_features_for_ml(df) ==
    [i \in DOMAIN df |-> prepare_purchase_row(df[i])]

prepare_churn_row(row) ==
    [row EXCEPT !.days_since_last_activity = replace(@, NoEventSentinel, SentinelCap),
                !.days_since_last_purchase = replace(@, NoEventSentinel, SentinelCap),
                !.avg_days_between_purchases =
                    replace(@, NoEventSentinel * 1000, SentinelCap * 1000),
                !.total_events = log1p(@ * 1000),
                !.total_spent = log1p(@ * 1000),
                !.customer_lifetime_value = log1p(@)]

prepare_churn_features_for_ml(df) ==
    [i \in DOMAIN df |-> prepare_churn_row(df[i])]

\* ---- operations on one user's history: a behaviour is one extraction call
\* on one state of the database, then the transform of its result.
TheUser == CHOOSE u \in 1..MaxUsers : TRUE

Call(extractor, fault) == [extractor |-> extractor, fault |-> fault]

purchase_extraction(prediction_date_, fault) ==
    /\ last_call = None
    /\ features' = extract_user_purchase_features(db_users, db_events, TheUser,
                                                  prediction_date_, fault)
    /\ prediction_date' = prediction_date_
    /\ last_call' = Some(Call("purchase", fault))
    /\ ml_df' = <<>>
    /\ UNCHANGED <<db_users, db_events, rows>>
    /\ UNCHANGED <<sched_vars, upd_vars, api_vars>>

churn_extraction(prediction_date_, fault) ==
    /\ last_call = None
    /\ features' = extract_user_churn_features(db_users, db_events, TheUser,
                                               prediction_date_, fault)
    /\ prediction_date' = prediction_date_
    /\ last_call' = Some(Call("churn", fault))
    /\ ml_df' = <<>>
    /\ UNCHANGED <<db_users, db_events, rows>>
    /\ UNCHANGED <<sched_vars, upd_vars, api_vars>>

user_extraction(fault) ==
    /\ last_call = None
    /\ features' = extract_user_features(db_users, db_events, TheUser, WallClock, fault)
    /\ prediction_date' = WallClock
    /\ last_call' = Some(Call("user", fault))
    /\ ml_df' = <<>>
    /\ UNCHANGED <<db_users, db_events, rows>>
    /\ UNCHANGED <<sched_vars, upd_vars, api_vars>>

\* prepare_*_for_ml(*_features_to_dataframe([features])) on the last result.
made_by(extractor) ==
    /\ last_call # None
    /\ last_call[1].extractor = extractor
    /\ features # None

purchase_ml_transform ==
    /\ made_by("purchase")
    /\ ml_df = <<>>
    /\ ml_df' = prepare_purchase_features_for_ml(<<features[1]>>)
    /\ UNCHANGED <<db_users, db_events, prediction_date, features, rows, last_call>>
    /\ UNCHANGED <<sched_vars, upd_vars, api_vars>>

\* The columns of a table: those of its rows.
columns(df) == IF df = <<>> THEN {} ELSE DOMAIN df[1]

\* numerical_features of prepare_purchase_features_for_ml, less the columns
\* left out of the extracted record.
numerical_features ==
    { "days_since_registration", "total_events", "unique_days_active",
      "events_last_7_days", "events_last_14_days", "events_last_30_days",
      "unique_days_active_last_7_days", "unique_days_active_last_14_days",
      "unique_days_active_last_30_days", "product_views_last_7_days",
      "product_views_last_14_days", "product_views_last_30_days", "total_purchases",
      "purchases_last_7_days", "purchases_last_14_days", "purchases_last_30_days",
      "purchases_last_60_days", "purchases_last_90_days", "total_spent",
      "avg_order_value", "days_since_last_purchase",
      "avg_session_duration_last_7_days", "avg_session_duration_last_14_days",
      "activity_trend_7d_vs_14d", "activity_trend_14d_vs_30d",
      "purchase_trend_30d_vs_60d" }

\* prepare_purchase_features_for_ml raises KeyError when it indexes a column
\* the table lacks: is_weekend, or any of numerical_features in the fillna
\* statement.
prepare_purchase_features_raises(df) ==
    ~(({"is_weekend"} \cup numerical_features) \subseteq columns(df))

churn_ml_transform ==
    /\ made_by("churn")
    /\ ml_df = <<>>
    /\ ml_df' = prepare_churn_features_for_ml(<<features[1]>>)
    /\ UNCHANGED <<db_users, db_events, prediction_date, features, rows, last_call>>
    /\ UNCHANGED <<sched_vars, upd_vars, api_vars>>

FeatInit ==
    /\ SchedIdle
    /\ UpdIdle
    /\ ApiIdle
    /\ db_users = [u \in {TheUser} |-> GoodUser]
    /\ db_events \in [{TheUser} -> Histories(MaxEvents, EventShapes)]
    /\ prediction_date = 0
    /\ features = None
    /\ rows = <<>>
    /\ ml_df = <<>>
    /\ last_call = None

FeatNext ==
    \/ \E d \in PredictionDates, f \in DbFaults : purchase_extraction(d, f)
    \/ \E d \in PredictionDates, f \in DbFaults : churn_extraction(d, f)
    \/ \E f \in DbFaults : user_extraction(f)
    \/ purchase_ml_transform
    \/ churn_ml_transform

FeatSpec == FeatInit /\ [][FeatNext]_vars

(***************************************************************************)
(* Properties of the feature extractors.                                   *)
(***************************************************************************)
history == db_events[TheUser]

at_or_before(events, instant) ==
    SelectSeq(events, LAMBDA e : e.event_timestamp <= instant)

\* The store with every event after the prediction date taken away.
truncated_store ==
    [u \in DOMAIN db_events |-> at_or_before(db_events[u], prediction_date)]

\* C3: a purchase or churn feature record depends only on the user, the
\* events at or before prediction_date and prediction_date: the record
\* extracted from the whole history is the record extracted from the history
\* cut at prediction_date, so events after it influence no field.
C3_NoFutureEventInfluence ==
    /\ (last_call # None /\ last_call[1].extractor = "purchase") =>
          features = extract_user_purchase_features(db_users, truncated_store, TheUser,
                                                    prediction_date, last_call[1].fault)
    /\ (last_call # None /\ last_call[1].extractor = "churn") =>
          features = extract_user_churn_features(db_users, truncated_store, TheUser,
                                                 prediction_date, last_call[1].fault)

\* C7: in every extracted purchase or churn record, for each event-type
\* filter, the count of events (and of distinct active days) of a longer
\* trailing window is at least that of every shorter one, over the windows
\* 7/14/30/60/90 the extractors use.
C7_WindowCountsMonotone ==
    /\ made_by("purchase") =>
          LET f == features[1]
          IN  /\ f.events_last_7_days <= f.events_last_14_days
              /\ f.events_last_14_days <= f.events_last_30_days
              /\ f.unique_days_active_last_7_days <= f.unique_days_active_last_14_days
              /\ f.unique_days_active_last_14_days <= f.unique_days_active_last_30_days
              /\ f.product_views_last_7_days <= f.product_views_last_14_days
              /\ f.product_views_last_14_days <= f.product_views_last_30_days
              /\ f.purchases_last_7_days <= f.purchases_last_14_days
              /\ f.purchases_last_14_days <= f.purchases_last_30_days
              /\ f.purchases_last_30_days <= f.purchases_last_60_days
              /\ f.purchases_last_60_days <= f.purchases_last_90_days
    /\ made_by("churn") =>
          LET f == features[1]
          IN  /\ f.events_last_7_days <= f.events_last_14_days
              /\ f.events_last_14_days <= f.events_last_30_days
              /\ f.events_last_30_days <= f.events_last_60_days
              /\ f.unique_days_active_last_7_days <= f.unique_days_active_last_14_days
              /\ f.unique_days_active_last_14_days <= f.unique_days_active_last_30_days
              /\ f.unique_days_active_last_30_days <= f.unique_days_active_last_60_days
              /\ f.product_views_last_7_days <= f.product_views_last_14_days
              /\ f.product_views_last_14_days <= f.product_views_last_30_days
              /\ f.purchases_last_7_days <= f.purchases_last_14_days
              /\ f.purchases_last_14_days <= f.purchases_last_30_days
              /\ f.purchases_last_30_days <= f.purchases_last_60_days

\* A purchase record whose purchase counts grow strictly from the 7-day to
\* the 30-day to the 90-day window.
C7_Witness ==
    /\ made_by("purchase")
    /\ 0 < features[1].purchases_last_7_days
    /\ features[1].purchases_last_7_days < features[1].purchases_last_30_days
    /\ features[1].purchases_last_30_days < features[1].purchases_last_90_days

\* The number of gaps longer than SessionGap between consecutive events.
long_gaps(w) ==
    Cardinality({i \in 2..Len(w) :
                    w[i].event_timestamp - w[i - 1].event_timestamp > SessionGap})

RECURSIVE concat(_)
concat(ss) == IF ss = <<>> THEN <<>> ELSE Head(ss) \o concat(Tail(ss))

\* The events the last extraction fetched that fall in its window of days.
fetched_window(days) ==
    window_events(get_user_events(db_events, TheUser, last_call[1].fault),
                  prediction_date, days)

sessions_as_specified(days, counted) ==
    LET w == fetched_window(days)
        sessions == group_events_into_sessions(w)
    IN  /\ counted = IF w = <<>> THEN 0 ELSE 1 + long_gaps(w)
        /\ concat(sessions) = w
        /\ \A k \in DOMAIN sessions : sessions[k] # <<>>

\* C8: the churn extractor's session count of a window is 0 for no events
\* and otherwise 1 plus the number of gaps between consecutive events that
\* are strictly longer than 1800 s (a gap of exactly 1800 s does not split);
\* the sessions are non-empty consecutive runs that partition the window.
C8_SessionCount ==
    made_by("churn") =>
        /\ sessions_as_specified(7, features[1].session_count_last_7_days)
        /\ sessions_as_specified(14, features[1].session_count_last_14_days)
        /\ sessions_as_specified(30, features[1].session_count_last_30_days)

\* Three events in the 7-day window: a gap of exactly 1800 s, then one of
\* 1801 s, counted as two sessions.
C8_Witness ==
    /\ made_by("churn")
    /\ Len(fetched_window(7)) = 3
    /\ fetched_window(7)[2].event_timestamp - fetched_window(7)[1].event_timestamp
           = SessionGap
    /\ fetched_window(7)[3].event_timestamp - fetched_window(7)[2].event_timestamp
           = SessionGap + 1
    /\ features[1].session_count_last_7_days = 2

\* C9: for a user without purchase events the purchase and the churn
\* extractor yield avg_order_value = 0 and days_since_last_purchase = 999,
\* and their ML-ready transforms turn these into 365 and (still) 0.
C9_NoPurchaseDefaults ==
    (purchases_of(history) = <<>>) =>
        /\ (made_by("purchase") \/ made_by("churn")) =>
              /\ features[1].avg_order_value = 0
              /\ features[1].days_since_last_purchase = 999
        /\ ml_df # <<>> =>
              /\ ml_df[1].avg_order_value = 0
              /\ ml_df[1].days_since_last_purchase = 365

\* A user with events but no purchase whose purchase record went through
\* the ML-ready transform.
C9_Witness ==
    /\ history # <<>>
    /\ purchases_of(history) = <<>>
    /\ made_by("purchase")
    /\ features[1].days_since_last_purchase = 999
    /\ ml_df # <<>>
    /\ ml_df[1].days_since_last_purchase = 365
    /\ ml_df[1].total_events > 0

\* C10: for a user with no events, every extractor that produces
\* days_since_last_activity (the segmentation and the churn extractor)
\* yields the sentinel 999.
C10_RecencySentinel ==
    (history = <<>> /\ (made_by("user") \/ made_by("churn"))) =>
        features[1].days_since_last_activity = 999

(***************************************************************************)
(* Batch extraction: extract_all_users_features of the segmentation        *)
(* extractor and extract_training_data of the purchase extractor.          *)
(***************************************************************************)
Users == 1..MaxUsers

UserRows == {GoodUser, UserRow(None, FALSE), UserRow(Some(RegisteredAt), TRUE)}

\* The histories of the users of a batch: nothing, or one event at RefDate.
BatchHistories ==
    {<<>>} \cup {<<Event(sh[1], RefDate, sh[2])>> :
                    sh \in EventShapes \cup {MalformedPurchase}}

\* Which database fault strikes the extraction of which user.
FaultAssignments == [Users -> DbFaults]

\* The user ids of a set in ascending order (ORDER BY user_id).
RECURSIVE ordered(_, _)
ordered(ids, from) ==
    IF from > MaxUsers THEN <<>>
    ELSE (IF from \in ids THEN <<from>> ELSE <<>>) \o ordered(ids, from + 1)

\* _get_all_users: [] on a failed query.
get_all_users(users, listing_fails) ==
    IF listing_fails THEN <<>> ELSE ordered(DOMAIN users, 1)

\* _get_users_for_training: the users with an event between the two dates.
get_users_for_training(users, store, start_date, end_date, listing_fails) ==
    IF listing_fails THEN <<>>
    ELSE ordered({u \in DOMAIN users :
                     \E i \in DOMAIN get_user_events(store, u, "none") :
                         /\ start_date <= store[u][i].event_timestamp
                         /\ store[u][i].event_timestamp <= end_date}, 1)

RECURSIVE all_users_loop(_, _, _, _, _)
all_users_loop(users, store, listed, now, faults) ==
    IF listed = <<>> THEN <<>>
    ELSE extract_user_features(users, store, Head(listed), now, faults[Head(listed)])
             \o all_users_loop(users, store, Tail(listed), now, faults)

extract_all_users_features(users, store, now, faults, listing_fails) ==
    all_users_loop(users, store, get_all_users(users, listing_fails), now, faults)

prediction_horizon_days == 30

\* The faults of a training extraction: those of a single-user extraction and
\* a failure of the label query of _add_target_variable.
TrainFaults == DbFaults \cup {"label_query"}

\* The label query of _add_target_variable: COUNT(*) of the user's purchases
\* after prediction_date within the horizon, straight from the events table.
purchases_in_horizon(store, user_id, prediction_date_) ==
    Len(SelectSeq(get_user_events(store, user_id, "none"), LAMBDA e :
            /\ e.event_type = "purchase"
            /\ e.event_timestamp > prediction_date_
            /\ e.event_timestamp
                   <= prediction_date_ + timedelta(prediction_horizon_days)))

\* _add_target_variable: the label of the query, False and 0 when it raises.
add_target_variable(f, store, user_id, prediction_date_, fault) ==
    LET purchase_count == purchases_in_horizon(store, user_id, prediction_date_)
    IN  IF fault = "label_query"
        THEN f @@ [will_purchase_in_30d |-> FALSE, purchase_count_in_30d |-> 0]
        ELSE f @@ [will_purchase_in_30d |-> purchase_count > 0,
                   purchase_count_in_30d |-> purchase_count]

\* The loop over the days with the last day left out.
RECURSIVE training_dates_loop_exclusive(_, _, _, _, _, _)
training_dates_loop_exclusive(users, store, user_id, current_date, end_date, fault) ==
    IF current_date >= end_date THEN <<>>
    ELSE LET f == extract_user_purchase_features(users, store, user_id,
                                                 current_date, fault)
         IN  (IF f = None THEN <<>>
              ELSE <<add_target_variable(f[1], store, user_id, current_date, fault)>>)
                 \o training_dates_loop_exclusive(users, store, user_id,
                        current_date + timedelta(1), end_date, fault)

RECURSIVE training_dates_loop(_, _, _, _, _, _)
training_dates_loop(users, store, user_id, current_date, end_date, fault) ==
    IF current_date > end_date THEN <<>>
    ELSE LET f == extract_user_purchase_features(users, store, user_id,
                                                 current_date, fault)
         IN  (IF f = None THEN <<>>
              ELSE <<add_target_variable(f[1], store, user_id, current_date, fault)>>)
                 \o training_dates_loop(users, store, user_id,
                                        current_date + timedelta(1), end_date, fault)

RECURSIVE training_users_loop(_, _, _, _, _, _)
training_users_loop(users, store, listed, start_date, end_date, faults) ==
    IF listed = <<>> THEN <<>>
    ELSE training_dates_loop(users, store, Head(listed), start_date, end_date,
                             faults[Head(listed)])
             \o training_users_loop(users, store, Tail(listed), start_date, end_date,
                                    faults)

extract_training_data(users, store, start_date, end_date, faults, listing_fails) ==
    training_users_loop(users, store,
        get_users_for_training(users, store, start_date, end_date, listing_fails),
        start_date, end_date, faults)

\* ---- the two batch operations as steps
all_users_extraction(faults, listing_fails) ==
    /\ last_call = None
    /\ rows' = extract_all_users_features(db_users, db_events, WallClock, faults,
                                          listing_fails)
    /\ last_call' = Some(Call("user", faults))
    /\ prediction_date' = WallClock
    /\ UNCHANGED <<db_users, db_events, features, ml_df>>
    /\ UNCHANGED <<sched_vars, upd_vars, api_vars>>

TrainingStarts == {RefDate - timedelta(1), RefDate}

training_data_extraction(start_date, faults, listing_fails) ==
    /\ last_call = None
    /\ rows' = extract_training_data(db_users, db_events, start_date, RefDate, faults,
                                     listing_fails)
    /\ last_call' = Some(Call("purchase", faults))
    /\ prediction_date' = start_date
    /\ UNCHANGED <<db_users, db_events, features, ml_df>>
    /\ UNCHANGED <<sched_vars, upd_vars, api_vars>>

BatchInit ==
    /\ SchedIdle
    /\ UpdIdle
    /\ ApiIdle
    /\ db_users \in UNION {[present -> UserRows] : present \in SUBSET Users}
    /\ db_events \in [DOMAIN db_users -> BatchHistories]
    /\ prediction_date = 0
    /\ features = None
    /\ rows = <<>>
    /\ ml_df = <<>>
    /\ last_call = None

BatchNext ==
    \/ \E f \in FaultAssignments, l \in BOOLEAN : all_users_extraction(f, l)
    \/ \E d \in TrainingStarts, f \in FaultAssignments, l \in BOOLEAN :
           training_data_extraction(d, f, l)

BatchSpec == BatchInit /\ [][BatchNext]_vars

\* A user whose extraction nothing disturbs: the row exists, both queries
\* succeed, the registration date is there and every payload parses.
undisturbed(u, faults) ==
    /\ u \in DOMAIN db_users
    /\ faults[u] = "none"
    /\ db_users[u].registration_date # None
    /\ ~total_spent_raises(db_events[u])

rows_of(table, u) == SelectSeq(table, LAMBDA r : r.user_id = u)

\* C6: a batch extraction is not aborted by one user: a user who does not
\* exist or whose user lookup, event fetch or feature computation fails
\* contributes no row, and every other user's rows are returned as that
\* user's extraction alone produces them.
C6_BatchSkipsFailedUsers ==
    [][\A f \in FaultAssignments :
          /\ all_users_extraction(f, FALSE) =>
                \A u \in Users :
                    rows_of(rows', u) =
                        IF undisturbed(u, f) /\ ~db_users[u].profile_malformed
                        THEN extract_user_features(db_users, db_events, u,
                                                   WallClock, "none")
                        ELSE <<>>
          /\ training_data_extraction(RefDate, f, FALSE) =>
                \A u \in Users :
                    rows_of(rows', u) =
                        IF undisturbed(u, f) /\ db_events[u] # <<>>
                        THEN <<add_target_variable(
                                 extract_user_purchase_features(db_users, db_events, u,
                                                                RefDate, "none")[1],
                                 db_events, u, RefDate, "none")>>
                        ELSE <<>>]_vars

(***************************************************************************)
(* Training-set extraction of the purchase and the churn extractor over a  *)
(* range of days that ends at RefDate.                                     *)
(***************************************************************************)
churn_definition_days == 30

\* The label query of the churn extractor: COUNT(*) of the user's events
\* after prediction_date within churn_definition_days.
events_in_horizon(store, user_id, prediction_date_) ==
    Len(SelectSeq(get_user_events(store, user_id, "none"), LAMBDA e :
            /\ e.event_timestamp > prediction_date_
            /\ e.event_timestamp
                   <= prediction_date_ + timedelta(churn_definition_days)))

\* ChurnFeatureExtractor._add_target_variable: False when the query raises.
churn_add_target_variable(f, store, user_id, prediction_date_, fault) ==
    IF fault = "label_query" THEN f @@ [will_churn |-> FALSE]
    ELSE f @@ [will_churn |-> events_in_horizon(store, user_id, prediction_date_) = 0]

RECURSIVE churn_training_dates_loop(_, _, _, _, _, _)
churn_training_dates_loop(users, store, user_id, current_date, end_date, fault) ==
    IF current_date > end_date THEN <<>>
    ELSE LET f == extract_user_churn_features(users, store, user_id,
                                              current_date, fault)
         IN  (IF f = None THEN <<>>
              ELSE <<churn_add_target_variable(f[1], store, user_id, current_date,
                                               fault)>>)
                 \o churn_training_dates_loop(users, store, user_id,
                        current_date + timedelta(1), end_date, fault)

RECURSIVE churn_training_users_loop(_, _, _, _, _, _)
churn_training_users_loop(users, store, listed, start_date, end_date, faults) ==
    IF listed = <<>> THEN <<>>
    ELSE churn_training_dates_loop(users, store, Head(listed), start_date, end_date,
                                   faults[Head(listed)])
             \o churn_training_users_loop(users, store, Tail(listed), start_date,
                                          end_date, faults)

churn_extract_training_data(users, store, start_date, end_date, faults, listing_fails) ==
    churn_training_users_loop(users, store,
        get_users_for_training(users, store, start_date, end_date, listing_fails),
        start_date, end_date, faults)

\* ---- bounds of the training ranges
MaxSpanDays == 4     \* end_date - start_date, in days

FirstDay == RefDate - timedelta(MaxSpanDays)

\* Instants of the events of a training history: on the first day's
\* prediction date, inside the range, on its end, on and just after the end
\* of the first day's label horizon, and after every horizon.
TrainEventTimes ==
    { FirstDay, RefDate - timedelta(1) + 3600, RefDate,
      FirstDay + timedelta(prediction_horizon_days),
      FirstDay + timedelta(prediction_horizon_days) + 1,
      RefDate + timedelta(prediction_horizon_days + 10) }

TrainShapes == { <<"view", NoProps>>, <<"purchase", Props(FALSE, Some(500))>> }

RECURSIVE HistoriesAt(_, _, _)
HistoriesAt(n, shapes, times) ==
    IF n = 0 THEN {<<>>}
    ELSE LET shorter == HistoriesAt(n - 1, shapes, times)
         IN  shorter \cup
             UNION { { Append(h, Event(sh[1], ts, sh[2])) :
                         sh \in shapes,
                         ts \in {t \in times :
                                    h = <<>> \/ t > h[Len(h)].event_timestamp} } :
                     h \in shorter }

TrainCall(fault, listing_fails) == [db |-> fault, listing_fails |-> listing_fails]

purchase_training(span, fault, listing_fails) ==
    /\ last_call = None
    /\ rows' = extract_training_data(db_users, db_events, RefDate - timedelta(span),
                                     RefDate, [u \in Users |-> fault], listing_fails)
    /\ last_call' = Some(Call("purchase_training", TrainCall(fault, listing_fails)))
    /\ prediction_date' = RefDate - timedelta(span)
    /\ UNCHANGED <<db_users, db_events, features, ml_df>>
    /\ UNCHANGED <<sched_vars, upd_vars, api_vars>>

churn_training(span, fault, listing_fails) ==
    /\ last_call = None
    /\ rows' = churn_extract_training_data(db_users, db_events,
                                           RefDate - timedelta(span), RefDate,
                                           [u \in Users |-> fault], listing_fails)
    /\ last_call' = Some(Call("churn_training", TrainCall(fault, listing_fails)))
    /\ prediction_date' = RefDate - timedelta(span)
    /\ UNCHANGED <<db_users, db_events, features, ml_df>>
    /\ UNCHANGED <<sched_vars, upd_vars, api_vars>>

TrainInit ==
    /\ SchedIdle
    /\ UpdIdle
    /\ ApiIdle
    /\ db_users = [u \in {TheUser} |-> GoodUser]
    /\ db_events \in [{TheUser} -> HistoriesAt(MaxEvents, TrainShapes, TrainEventTimes)]
    /\ prediction_date = 0
    /\ features = None
    /\ rows = <<>>
    /\ ml_df = <<>>
    /\ last_call = None

TrainNext ==
    \/ \E d \in 0..MaxSpanDays, f \in TrainFaults, l \in BOOLEAN :
           purchase_training(d, f, l)
    \/ \E d \in 0..MaxSpanDays, f \in TrainFaults, l \in BOOLEAN :
           churn_training(d, f, l)

TrainSpec == TrainInit /\ [][TrainNext]_vars

\* ---- properties of the training sets
trained == last_call # None
           /\ last_call[1].extractor \in {"purchase_training", "churn_training"}

\* end_date - start_date of the last training extraction, in days.
span_days == days_of(RefDate - prediction_date)

\* The user was listed and nothing kept the extractor from answering.
answers(u) ==
    /\ ~last_call[1].fault.listing_fails
    /\ last_call[1].fault.db # "user_lookup"
    /\ \E i \in DOMAIN db_events[u] :
           /\ prediction_date <= db_events[u][i].event_timestamp
           /\ db_events[u][i].event_timestamp <= RefDate

distinct_dates(table) ==
    \A i, j \in DOMAIN table :
        i # j => table[i].feature_extraction_date # table[j].feature_extraction_date

event_follows(u, instant, types) ==
    \E i \in DOMAIN db_events[u] :
        /\ db_events[u][i].event_type \in types
        /\ instant < db_events[u][i].event_timestamp
        /\ db_events[u][i].event_timestamp <= instant + timedelta(30)

\* C12: every row of a training extraction carries the forward-looking label
\* of its user and prediction date: will_purchase_in_30d iff the store holds
\* a purchase of the user in (prediction_date, prediction_date + 30 days],
\* will_churn iff it holds no event of the user in that interval; also when
\* the label query fails.
C12_LabelsAgreeWithStore ==
    trained =>
        \A i \in DOMAIN rows :
            IF last_call[1].extractor = "purchase_training"
            THEN rows[i].will_purchase_in_30d
                     = event_follows(rows[i].user_id, rows[i].feature_extraction_date,
                                     {"purchase"})
            ELSE rows[i].will_churn
                     = ~event_follows(rows[i].user_id, rows[i].feature_extraction_date,
                                      {"view", "purchase"})

(***************************************************************************)
(* The aggregates of the purchase extractor on short histories around an   *)
(* instant t0, extracted one hour later.                                   *)
(***************************************************************************)
AggT0 == RefDate - 3600

AggEventTimes == {AggT0 - timedelta(8), AggT0, AggT0 + 300, AggT0 + 600}

AggShapes ==
    { <<"view", NoProps>>, <<"add_to_cart", NoProps>>,
      <<"purchase", Props(FALSE, Some(500))>>, <<"purchase", NoProps>> }

AggInit ==
    /\ SchedIdle
    /\ UpdIdle
    /\ ApiIdle
    /\ db_users = [u \in {TheUser} |-> GoodUser]
    /\ db_events \in [{TheUser} -> HistoriesAt(MaxEvents, AggShapes, AggEventTimes)]
    /\ prediction_date = 0
    /\ features = None
    /\ rows = <<>>
    /\ ml_df = <<>>
    /\ last_call = None

AggNext == \E f \in DbFaults : purchase_extraction(AggT0 + 3600, f)

AggSpec == AggInit /\ [][AggNext]_vars

\* The sum of the numeric amounts of the purchases among the first k events.
RECURSIVE spent_up_to(_, _)
spent_up_to(h, k) ==
    IF k = 0 THEN 0
    ELSE spent_up_to(h, k - 1)
           + (IF h[k].event_type = "purchase" /\ h[k].properties.amount # None
              THEN h[k].properties.amount[1] ELSE 0)

purchase_indices(h) == {i \in DOMAIN h : h[i].event_type = "purchase"}

\* C13: in a purchase record extracted with both queries answering,
\* total_events is the number of the user's events, purchases_last_7_days
\* the number of purchases in [prediction_date - 7 days, prediction_date],
\* total_spent the sum of the numeric purchase amounts and avg_order_value
\* total_spent over the number of purchases (in thousandths, rounded down).
C13_PurchaseAggregates ==
    (made_by("purchase") /\ last_call[1].fault # "event_fetch") =>
        LET f == features[1]
            n == Cardinality(purchase_indices(history))
        IN  /\ f.total_events = Len(history)
            /\ f.purchases_last_7_days =
                  Cardinality({i \in purchase_indices(history) :
                      /\ prediction_date - 7 * 86400 <= history[i].event_timestamp
                      /\ history[i].event_timestamp <= prediction_date})
            /\ f.total_spent = spent_up_to(history, Len(history))
            /\ n = 0 => f.avg_order_value = 0
            /\ n > 0 => /\ n * f.avg_order_value <= 1000 * f.total_spent
                        /\ 1000 * f.total_spent < n * (f.avg_order_value + 1)

\* view@t0, add_to_cart@t0+5m, purchase(amount=500)@t0+10m extracted at
\* t0+1h: 3 events, 1 purchase in the 7-day window, 500.0 spent, 500.0 a
\* purchase.
C13_Witness ==
    /\ made_by("purchase")
    /\ last_call[1].fault = "none"
    /\ prediction_date = AggT0 + 3600
    /\ history = << Event("view", AggT0, NoProps),
                    Event("add_to_cart", AggT0 + 300, NoProps),
                    Event("purchase", AggT0 + 600, Props(FALSE, Some(500))) >>
    /\ features[1].total_events = 3
    /\ features[1].purchases_last_7_days = 1
    /\ features[1].total_spent = 500
    /\ features[1].avg_order_value = 500000

\* A configuration update that names every option of the segmentation entry.
complete(c) ==
    /\ "segmentation" \in DOMAIN c
    /\ DOMAIN c.segmentation = DOMAIN DefaultSegmentation

\* C14: for every schedule type in {daily, weekly, monthly, custom} with
\* enabled = true, setting up the schedule of a complete configuration
\* registers exactly one job, which runs the segmentation retraining at the
\* configured time of day; with enabled = false it registers no job.
C14_OneJobAtConfiguredTime ==
    [][\A c \in ConfigUpdates :
          (update_retraining_config(c) /\ complete(c)) =>
              IF c.segmentation.enabled
              THEN /\ Len(jobs') = 1
                   /\ jobs'[1].run = "retrain_segmentation_model"
                   /\ jobs'[1].at = c.segmentation.time
              ELSE jobs' = <<>>]_vars

\* C15: an error raised while the background loop evaluates the schedule or
\* runs a due job does not end the loop: a thread leaves the loop only on
\* reading is_running as false, so after a step in which run_pending raised
\* or the job failed the thread is still in the loop.
C15_LoopSurvivesErrors ==
    [][\A t \in Threads :
          (thread_pc[t] = "loop" /\ thread_pc'[t] # "loop") => ~is_running]_vars

\* The loop thread still looping after an iteration whose run_pending raised.
C15_Witness ==
    /\ is_running
    /\ last_job = "raised"
    /\ \E t \in Threads : thread_pc[t] = "loop"

(***************************************************************************)
(* The prediction updater (scheduler/prediction_updater.py): the scheduled *)
(* job and trigger_update() both run _update_predictions, each on its own  *)
(* thread, over the one process-wide autocommit connection.  A run is      *)
(* split at its accesses to user_metrics.                                  *)
(***************************************************************************)
activity_interval_days == 30

MaxArrivals == 1     \* events stored while the runs are under way

MetricRow(user_id, probability, last_updated) ==
    [user_id |-> user_id, purchase_probability_30d |-> probability,
     last_updated |-> last_updated]

metrics_of(table, user_id) == SelectSeq(table, LAMBDA m : m.user_id = user_id)

\* The WHERE clause of _get_users_for_update: no metrics row (the LEFT JOIN
\* yields NULLs), a stale one or one without a probability, and an event in
\* the last 30 days.
needs_update(users, store, table, user_id, now) ==
    LET ms == metrics_of(table, user_id)
        threshold_date == now - timedelta(update_threshold_days)
    IN  /\ \/ ms = <<>>
           \/ \E i \in DOMAIN ms : \/ ms[i].last_updated < threshold_date
                                   \/ ms[i].purchase_probability_30d = None
        /\ \E i \in DOMAIN store[user_id] :
              store[user_id][i].event_timestamp > now - timedelta(activity_interval_days)

get_users_for_update(users, store, table, now) ==
    LET found == ordered({u \in DOMAIN users : needs_update(users, store, table, u, now)}, 1)
    IN  SubSeq(found, 1, IF Len(found) < max_users_per_update
                         THEN Len(found) ELSE max_users_per_update)

\* PurchasePredictionModel.predict: one prediction per row of the table, by
\* the persisted estimator; it raises (None) when nothing was loaded.  The
\* estimator is a fixed function of the row.
estimate(row) == ratio(1 + row.purchases_last_30_days, 2 + row.events_last_30_days)

Prediction(user_id, purchase_probability) ==
    [user_id |-> user_id, purchase_probability |-> purchase_probability]

predict(model, table) ==
    IF model # Some("loaded") THEN None
    ELSE Some([i \in DOMAIN table |-> Prediction(table[i].user_id, estimate(table[i]))])

RECURSIVE batch_features(_, _, _, _, _)
batch_features(users, store, batch, now, fault) ==
    IF batch = <<>> THEN <<>>
    ELSE LET f == extract_user_purchase_features(users, store, Head(batch), now, fault)
         IN  f \o batch_features(users, store, Tail(batch), now, fault)

\* _update_batch_predictions up to the call of _update_database_predictions:
\* the predictions of a batch, none when no features were extracted or
\* predict raised.
batch_predictions(model, users, store, batch, now, fault) ==
    LET features_list == batch_features(users, store, batch, now, fault)
        predictions == predict(model, prepare_purchase_features_for_ml(features_list))
    IN  IF features_list = <<>> \/ predictions = None THEN <<>> ELSE predictions[1]

\* Where a run goes on: the next prediction of the batch, the next batch, or
\* the end of _update_predictions.
next_pc(users, predictions) ==
    IF predictions # <<>> THEN "check" ELSE IF users # <<>> THEN "batch" ELSE "idle"

latest(known, predictions) ==
    [u \in DOMAIN known \cup {predictions[i].user_id : i \in DOMAIN predictions} |->
        IF \E i \in DOMAIN predictions : predictions[i].user_id = u
        THEN (CHOOSE p \in {predictions[i] : i \in DOMAIN predictions} :
                 p.user_id = u).purchase_probability
        ELSE known[u]]

upd_frame == <<db_users, prediction_date, features, rows, ml_df, last_call,
               unique_user_id, purchase_model_file, update_config, updater_is_running,
               updater_thread_pc>>

\* _update_predictions up to its batch loop: loads the model on first use and
\* selects the users to update.
update_predictions_begin(r) ==
    /\ update_runs[r].pc = "idle"
    /\ IF purchase_prediction_model = None /\ ~purchase_model_file
       THEN /\ purchase_prediction_model' = Some("empty")
            /\ UNCHANGED update_runs
       ELSE LET users_to_update ==
                    get_users_for_update(db_users, db_events, user_metrics, WallClock)
            IN  /\ purchase_prediction_model' =
                       IF purchase_prediction_model = None THEN Some("loaded")
                       ELSE purchase_prediction_model
                /\ update_runs' =
                       [update_runs EXCEPT ![r] =
                           IF users_to_update = <<>> THEN IdleRun
                           ELSE [IdleRun EXCEPT !.pc = "batch", !.users = users_to_update]]
    /\ UNCHANGED <<user_metrics, produced, arrivals, db_events, upd_frame, sched_vars, api_vars>>

\* One turn of the batch loop, up to the first statement on user_metrics.
update_batch_predictions(r, fault) ==
    /\ update_runs[r].pc = "batch"
    /\ LET run == update_runs[r]
           n == IF Len(run.users) < batch_size THEN Len(run.users) ELSE batch_size
           batch == SubSeq(run.users, 1, n)
           rest == SubSeq(run.users, n + 1, Len(run.users))
           predictions == batch_predictions(purchase_prediction_model, db_users,
                                            db_events, batch, WallClock, fault)
       IN  /\ produced' = latest(produced, predictions)
           /\ update_runs' = [update_runs EXCEPT ![r] =
                                [run EXCEPT !.users = rest,
                                            !.predictions = predictions,
                                            !.pc = next_pc(rest, predictions)]]
    /\ UNCHANGED <<user_metrics, purchase_prediction_model, arrivals, db_events,
                   upd_frame, sched_vars, api_vars>>

\* _update_database_predictions: the SELECT for the prediction at hand.
check_existing(r) ==
    /\ update_runs[r].pc = "check"
    /\ LET run == update_runs[r]
       IN  update_runs' = [update_runs EXCEPT ![r] =
              [run EXCEPT !.existing =
                              metrics_of(user_metrics, Head(run.predictions).user_id) # <<>>,
                          !.pc = "write"]]
    /\ UNCHANGED <<user_metrics, purchase_prediction_model, produced, arrivals,
                   db_events, upd_frame, sched_vars, api_vars>>

\* _update_database_predictions: the UPDATE or the INSERT that follows the
\* SELECT.  An INSERT the schema rejects raises, and the except clause drops
\* the rest of the batch.
write_prediction(r) ==
    /\ update_runs[r].pc = "write"
    /\ LET run == update_runs[r]
           prediction == Head(run.predictions)
           rejected == /\ ~run.existing
                       /\ unique_user_id
                       /\ metrics_of(user_metrics, prediction.user_id) # <<>>
           remaining == IF rejected THEN <<>> ELSE Tail(run.predictions)
       IN  /\ user_metrics' =
                  IF run.existing
                  THEN [i \in DOMAIN user_metrics |->
                          IF user_metrics[i].user_id = prediction.user_id
                          THEN MetricRow(prediction.user_id,
                                         Some(prediction.purchase_probability), WallClock)
                          ELSE user_metrics[i]]
                  ELSE IF rejected THEN user_metrics
                  ELSE Append(user_metrics,
                              MetricRow(prediction.user_id,
                                        Some(prediction.purchase_probability), WallClock))
           /\ update_runs' = [update_runs EXCEPT ![r] =
                                [run EXCEPT !.predictions = remaining,
                                            !.existing = FALSE,
                                            !.pc = next_pc(run.users, remaining)]]
    /\ UNCHANGED <<purchase_prediction_model, produced, arrivals, db_events,
                   upd_frame, sched_vars, api_vars>>

\* The surrounding application stores an event of a user.
event_arrives(u) ==
    /\ arrivals < MaxArrivals
    /\ arrivals' = arrivals + 1
    /\ db_events' = [db_events EXCEPT ![u] = Append(@, Event("view", WallClock, NoProps))]
    /\ UNCHANGED <<user_metrics, purchase_prediction_model, update_runs, produced,
                   upd_frame, sched_vars, api_vars>>

\* The cache before the runs: per user no row, a stale row or a fresh one.
StaleRow(u) == MetricRow(u, Some(0), WallClock - timedelta(update_threshold_days + 1))
FreshRow(u) == MetricRow(u, Some(0), WallClock - SessionGap)
UnscoredRow(u) == MetricRow(u, None, WallClock - SessionGap)

RECURSIVE cached(_, _)
cached(choice, from) ==
    IF from > MaxUsers THEN <<>>
    ELSE choice[from] \o cached(choice, from + 1)

CachedRows(u) == {<<>>, <<StaleRow(u)>>, <<FreshRow(u)>>, <<UnscoredRow(u)>>}

MetricTables ==
    { cached(c, 1) :
        c \in { f \in [Users -> UNION {CachedRows(u) : u \in Users}] :
                  \A u \in Users : f[u] \in CachedRows(u) } }

\* Per user no event or a view at RefDate, which is within the last 30 days.
UpdHistories == { <<>>, <<Event("view", RefDate, NoProps)>> }

\* The purchase model is trained and persisted (POST /train of the
\* purchase-prediction API) while the updater runs.
model_persisted ==
    /\ ~purchase_model_file
    /\ purchase_model_file' = TRUE
    /\ UNCHANGED <<user_metrics, unique_user_id, purchase_prediction_model, update_runs,
                   produced, arrivals, update_config, updater_is_running,
                   updater_thread_pc>>
    /\ UNCHANGED <<sched_vars, feat_vars, api_vars>>

UpdInit ==
    /\ SchedIdle
    /\ UpdaterConstructed
    /\ ApiIdle
    /\ db_users = [u \in Users |-> GoodUser]
    /\ db_events \in [Users -> UpdHistories]
    /\ prediction_date = 0
    /\ features = None
    /\ rows = <<>>
    /\ ml_df = <<>>
    /\ last_call = None
    /\ user_metrics \in MetricTables
    /\ unique_user_id \in BOOLEAN
    /\ purchase_model_file \in BOOLEAN
    /\ purchase_prediction_model = None
    /\ update_runs = [r \in UpdRuns |-> IdleRun]
    /\ produced = <<>>
    /\ arrivals = 0

UpdNext ==
    \/ \E r \in UpdRuns : update_predictions_begin(r)
    \/ \E r \in UpdRuns, f \in DbFaults : update_batch_predictions(r, f)
    \/ \E r \in UpdRuns : check_existing(r)
    \/ \E r \in UpdRuns : write_prediction(r)
    \/ \E u \in Users : event_arrives(u)
    \/ model_persisted

UpdSpec == UpdInit /\ [][UpdNext]_vars

\* C16: once the update runs have ended, every user for whom a prediction
\* was produced has exactly one row in user_metrics, and it holds the
\* probability predicted last for that user, however the scheduled run and
\* the run of trigger_update() interleave.
C16_UpsertOneRowPerUser ==
    (\A r \in UpdRuns : update_runs[r].pc = "idle") =>
        \A u \in DOMAIN produced :
            /\ Len(metrics_of(user_metrics, u)) = 1
            /\ metrics_of(user_metrics, u)[1].purchase_probability_30d = Some(produced[u])

(***************************************************************************)
(* The purchase-prediction API (api/purchase_prediction_api.py): the train *)
(* and the batch predict endpoints.  A behaviour is one request on one     *)
(* state of the database.                                                  *)
(***************************************************************************)
min_training_samples == 100
max_batch_user_ids == 1000

MaxIds == 2          \* user ids in one batch predict request

HTTPException(status_code, detail) == [status_code |-> status_code, detail |-> detail]

\* What an endpoint returns is sent with status 200.
JSONResponse(data) == [status_code |-> 200, data |-> data]

\* The detail of the insufficient-data error: the required minimum and the
\* number of samples extracted.
InsufficientData(required, actual) ==
    [error |-> "insufficient data", required |-> required, actual |-> actual]

Raised(e) == [raised |-> TRUE, value |-> e]
Returned(v) == [raised |-> FALSE, value |-> v]

\* The try block of train_purchase_prediction_model; train() itself is the
\* wrapper's and either returns metrics or raises.
train_try_block(users, store, days_back, faults, listing_fails, train_fails) ==
    LET end_date == WallClock
        start_date == end_date - timedelta(days_back)
        features_list == extract_training_data(users, store, start_date, end_date,
                                               faults, listing_fails)
    IN  IF Len(features_list) < min_training_samples
        THEN Raised(HTTPException(400, InsufficientData(min_training_samples,
                                                        Len(features_list))))
                 @@ [trained |-> FALSE, calls |-> 0]
        ELSE IF train_fails
        THEN Raised([error |-> "train"]) @@ [trained |-> FALSE, calls |-> 1]
        ELSE Returned([training_samples |-> Len(features_list)])
                 @@ [trained |-> TRUE, calls |-> 1]

TrainRequest(days_back, fault, listing_fails, train_fails) ==
    [days_back |-> days_back, db |-> fault, listing_fails |-> listing_fails,
     train_fails |-> train_fails]

\* POST /train: every exception of the try block, the HTTPException of the
\* sample check included, is caught by "except Exception" and raised again
\* as a 500 whose detail is the text of the exception caught.
train_purchase_prediction_model(days_back, fault, listing_fails, train_fails) ==
    /\ last_call = None
    /\ LET r == train_try_block(db_users, db_events, days_back, [u \in Users |-> fault],
                                listing_fails, train_fails)
       IN  /\ response' = Some(IF r.raised
                               THEN HTTPException(500, [error |-> "Error training model",
                                                        cause |-> r.value])
                               ELSE JSONResponse(r.value))
           /\ train_calls' = train_calls + r.calls
           /\ api_purchase_model' = IF r.trained THEN Some("loaded")
                                    ELSE IF api_purchase_model = None THEN Some("empty")
                                    ELSE api_purchase_model
    /\ last_call' = Some(Call("train",
                              TrainRequest(days_back, fault, listing_fails, train_fails)))
    /\ UNCHANGED <<db_users, db_events, prediction_date, features, rows, ml_df>>
    /\ UNCHANGED <<sched_vars, upd_vars>>

\* The try block of predict_batch_purchases.
predict_batch_try_block(model, users, store, user_ids, pred_date, fault) ==
    IF model = None \/ model = Some("empty")
    THEN Raised(HTTPException(404, [error |-> "not trained"]))
    ELSE IF Len(user_ids) > max_batch_user_ids
    THEN Raised(HTTPException(400, [error |-> "too many users"]))
    ELSE LET features_list == batch_features(users, store, user_ids, pred_date, fault)
             predictions == predict(model, prepare_purchase_features_for_ml(features_list))
         IN  IF features_list = <<>>
             THEN Raised(HTTPException(404, [error |-> "no valid users"]))
             ELSE IF predictions = None THEN Raised([error |-> "predict"])
             ELSE Returned([predictions |-> predictions[1],
                            total_predictions |-> Len(predictions[1])])

BatchRequest(user_ids, fault) == [user_ids |-> user_ids, db |-> fault]

\* POST /predict/batch: an HTTPException passes, any other exception is
\* raised again as a 500.
predict_batch_purchases(user_ids, prediction_date_, fault) ==
    /\ last_call = None
    /\ LET r == predict_batch_try_block(api_purchase_model, db_users, db_events,
                                        user_ids, prediction_date_, fault)
       IN  response' = Some(IF ~r.raised THEN JSONResponse(r.value)
                            ELSE IF "status_code" \in DOMAIN r.value THEN r.value
                            ELSE HTTPException(500, [error |-> "Error predicting batch purchases",
                                                     cause |-> r.value]))
    /\ last_call' = Some(Call("predict_batch", BatchRequest(user_ids, fault)))
    /\ prediction_date' = prediction_date_
    /\ UNCHANGED <<db_users, db_events, features, rows, ml_df>>
    /\ UNCHANGED <<api_purchase_model, train_calls>>
    /\ UNCHANGED <<sched_vars, upd_vars>>

\* The requests modelled: 30 days (the least the endpoint accepts) and 49,
\* which gives 50 samples per user; lists of at most MaxIds ids, one of them
\* of no user.
DaysBack == {30, 49}

RECURSIVE IdLists(_)
IdLists(n) ==
    IF n = 0 THEN {<<>>}
    ELSE IdLists(n - 1) \cup
         {Append(l, u) : l \in {k \in IdLists(n - 1) : Len(k) = n - 1},
                         u \in 1..(MaxUsers + 1)}

ApiHistories == UpdHistories \cup { <<Event("purchase", RefDate, Props(FALSE, Some(500)))>> }

ApiInit ==
    /\ SchedIdle
    /\ UpdIdle
    /\ db_users \in UNION {[present -> {GoodUser}] : present \in SUBSET Users}
    /\ db_events \in [DOMAIN db_users -> ApiHistories]
    /\ prediction_date = 0
    /\ features = None
    /\ rows = <<>>
    /\ ml_df = <<>>
    /\ last_call = None
    /\ api_purchase_model \in {Some("empty"), Some("loaded")}
    /\ response = None
    /\ train_calls = 0

ApiNext ==
    \/ \E d \in DaysBack, f \in TrainFaults, l \in BOOLEAN, t \in BOOLEAN :
          train_purchase_prediction_model(d, f, l, t)
    \/ \E ids \in IdLists(MaxIds), d \in PredictionDates, f \in DbFaults :
          predict_batch_purchases(ids, d, f)

ApiSpec == ApiInit /\ [][ApiNext]_vars

called(endpoint) == last_call # None /\ last_call[1].extractor = endpoint

request == last_call[1].fault

\* C17: a batch predict request answered with predictions returns one
\* prediction per distinct existing user of user_ids, duplicates included
\* once.
C17_OneResultPerDistinctUser ==
    (called("predict_batch") /\ request.db = "none" /\ response[1].status_code = 200) =>
        response[1].data.total_predictions =
            Cardinality({request.user_ids[i] : i \in DOMAIN request.user_ids}
                            \cap DOMAIN db_users)

samples_extracted ==
    Len(extract_training_data(db_users, db_events, WallClock - timedelta(request.days_back),
                              WallClock, [u \in Users |-> request.db],
                              request.listing_fails))

\* C18: a train request whose extraction yields fewer than 100 samples is
\* rejected with status 400 and the insufficient-data detail naming 100 and
\* the number extracted, and train() is not called.
C18_InsufficientDataIs400 ==
    (called("train") /\ samples_extracted < min_training_samples) =>
        /\ response = Some(HTTPException(400, InsufficientData(min_training_samples,
                                                               samples_extracted)))
        /\ train_calls = 0

(***************************************************************************)
(* The ML-ready transform applied to whole tables: those the extractor     *)
(* gives, and tables that hold only some of the feature columns, as in     *)
(* TestFeatureProcessing.test_prepare_purchase_features_for_ml.            *)
(***************************************************************************)
SubsetColumns ==
    { "user_id", "telegram_id", "total_events", "total_purchases", "total_spent",
      "is_weekend", "will_purchase_in_30d" }

SubsetRow(user_id, total_events, total_spent, is_weekend_, will_purchase) ==
    [user_id |-> user_id, telegram_id |-> 123456789 + user_id,
     total_events |-> total_events, total_purchases |-> total_events \div 12,
     total_spent |-> total_spent, is_weekend |-> is_weekend_,
     will_purchase_in_30d |-> will_purchase]

RECURSIVE SubsetTables(_)
SubsetTables(n) ==
    IF n = 0 THEN {<<>>}
    ELSE SubsetTables(n - 1) \cup
         { Append(t, SubsetRow(n, e, sp, w, p)) :
             t \in {k \in SubsetTables(n - 1) : Len(k) = n - 1},
             e \in {25, 50}, sp \in {0, 1000}, w \in BOOLEAN, p \in BOOLEAN }

\* Tables of extracted records, one row per user.
FullTables ==
    { batch_features([u \in Users |-> GoodUser], store, ordered(Users, 1), WallClock,
                     "none") : store \in [Users -> ApiHistories] }

\* One call of prepare_purchase_features_for_ml on the table in rows.
prepare_purchase_table ==
    /\ last_call = None
    /\ IF prepare_purchase_features_raises(rows)
       THEN /\ response' = Some(Raised([error |-> "KeyError"]))
            /\ UNCHANGED ml_df
       ELSE /\ response' = Some(Returned([rows |-> Len(rows)]))
            /\ ml_df' = prepare_purchase_features_for_ml(rows)
    /\ last_call' = Some(Call("prepare_purchase", "none"))
    /\ UNCHANGED <<db_users, db_events, prediction_date, features, rows>>
    /\ UNCHANGED <<api_purchase_model, train_calls>>
    /\ UNCHANGED <<sched_vars, upd_vars>>

\* ---- prepare_features_for_ml of the segmentation features
\* pd.get_dummies(series, prefix=...): per row a 0/1 value in one column per
\* distinct non-null value of the series; a null row has 0 everywhere.  With
\* every known language as a column, whatever the batch holds:
LanguageCodes == {"ru", "en"}

get_dummies_all_languages(series, prefix) ==
    [i \in DOMAIN series |->
        [col \in {prefix \o "_" \o c : c \in LanguageCodes} |->
            IF series[i] # None /\ col = prefix \o "_" \o series[i][1] THEN 1 ELSE 0]]

get_dummies(series, prefix) ==
    LET present == {series[i][1] : i \in {j \in DOMAIN series : series[j] # None}}
    IN  [i \in DOMAIN series |->
            [col \in {prefix \o "_" \o c : c \in present} |->
                IF series[i] # None /\ col = prefix \o "_" \o series[i][1] THEN 1 ELSE 0]]

\* The columns of the segmentation table that the transform names; the
\* other numeric columns pass through it unchanged and are left out.
UserColumns ==
    { "user_id", "has_username", "has_last_name", "language_code", "total_events",
      "total_spent", "avg_order_value" }

prepare_features_raises(df) == ~(UserColumns \subseteq columns(df))

drop(row, column) == [c \in DOMAIN row \ {column} |-> row[c]]

prepare_features_for_ml(df) ==
    LET language_dummies == get_dummies([i \in DOMAIN df |-> df[i].language_code], "lang")
        encoded(i) == [df[i] EXCEPT !.has_username = IF @ THEN 1 ELSE 0,
                                    !.has_last_name = IF @ THEN 1 ELSE 0,
                                    !.total_events = log1p(@ * 1000),
                                    !.total_spent = log1p(@ * 1000),
                                    !.avg_order_value = log1p(@ * 1000)]
    IN  [i \in DOMAIN df |-> drop(encoded(i) @@ language_dummies[i], "language_code")]

UserFeatureRow(user_id, language_code, has_username, total_events) ==
    [user_id |-> user_id, has_username |-> has_username, has_last_name |-> FALSE,
     language_code |-> language_code, total_events |-> total_events,
     total_spent |-> 20 * total_events, avg_order_value |-> 0]

RECURSIVE UserTables(_)
UserTables(n) ==
    IF n = 0 THEN {<<>>}
    ELSE UserTables(n - 1) \cup
         { Append(t, UserFeatureRow(n, l, h, e)) :
             t \in {k \in UserTables(n - 1) : Len(k) = n - 1},
             l \in {None} \cup {Some(c) : c \in LanguageCodes},
             h \in BOOLEAN, e \in {0, 25} }

\* One call of prepare_features_for_ml on the table in rows.
prepare_user_table ==
    /\ last_call = None
    /\ IF prepare_features_raises(rows)
       THEN /\ response' = Some(Raised([error |-> "KeyError"]))
            /\ UNCHANGED ml_df
       ELSE /\ response' = Some(Returned([rows |-> Len(rows)]))
            /\ ml_df' = prepare_features_for_ml(rows)
    /\ last_call' = Some(Call("prepare_user", "none"))
    /\ UNCHANGED <<db_users, db_events, prediction_date, features, rows>>
    /\ UNCHANGED <<api_purchase_model, train_calls>>
    /\ UNCHANGED <<sched_vars, upd_vars>>

PrepInit ==
    /\ SchedIdle
    /\ UpdIdle
    /\ ApiIdle
    /\ db_users = <<>>
    /\ db_events = <<>>
    /\ prediction_date = 0
    /\ features = None
    /\ rows \in ((SubsetTables(MaxUsers) \cup UserTables(MaxUsers)) \ {<<>>})
                   \cup FullTables
    /\ ml_df = <<>>
    /\ last_call = None

PrepNext ==
    \/ prepare_purchase_table
    \/ prepare_user_table

PrepSpec == PrepInit /\ [][PrepNext]_vars

\* C19: prepare_purchase_features_for_ml accepts a table holding only the
\* columns user_id, telegram_id, total_events, total_purchases, total_spent,
\* is_weekend and will_purchase_in_30d: it does not raise and returns the
\* same rows with is_weekend as 0 or 1, the numeric columns kept and
\* total_spent >= 0.
C19_SubsetTableAccepted ==
    (called("prepare_purchase") /\ columns(rows) = SubsetColumns) =>
        /\ ~response[1].raised
        /\ Len(ml_df) = Len(rows)
        /\ \A i \in DOMAIN ml_df :
              /\ ml_df[i].user_id = rows[i].user_id
              /\ ml_df[i].is_weekend \in {0, 1}
              /\ {"total_events", "total_purchases"} \subseteq DOMAIN ml_df[i]
              /\ ml_df[i].total_spent >= 0

(***************************************************************************)
(* The minimum-sample gate of the retraining job.                          *)
(***************************************************************************)
gate_configured ==
    "min_users_for_retraining" \in DOMAIN retraining_config["segmentation"]

too_few(n) == n < retraining_config["segmentation"]["min_users_for_retraining"]

\* C20: in every state the scheduler reaches, the retraining job run on
\* fewer extracted records than min_users_for_retraining returns at the
\* gate: no backup, optimization or training happens, and the scheduler's
\* model, its artifact path and the artifact files are as before.
C20_GateLeavesModelUntouched ==
    gate_configured =>
        \A n \in UserCounts, fault \in Faults :
            too_few(n) =>
                LET r == retrain_segmentation_model(retraining_config, segmentation_model,
                                                    artifacts, versions, n, fault)
                IN  /\ r.sm = segmentation_model
                    /\ r.files = artifacts
                    /\ r.versions = versions
                    /\ r.ended = IF fault = "db" THEN "failed" ELSE "gated"

\* The job has returned at the gate on a scheduler that holds a fitted model
\* and is configured to back it up.
C20_Witness ==
    /\ last_job = "gated"
    /\ gate_configured
    /\ "backup_previous_model" \in DOMAIN retraining_config["segmentation"]
    /\ retraining_config["segmentation"]["backup_previous_model"]
    /\ segmentation_model # None
    /\ segmentation_model[1].model # 0
    /\ segmentation_model[1].model_path = "primary"

(***************************************************************************)
(* The order of the steps of one retraining job.                           *)
(***************************************************************************)
positions(steps, name) == {i \in DOMAIN steps : steps[i].step = name}

before(steps, first, then) ==
    \A i \in positions(steps, first), j \in positions(steps, then) : i < j

job_on(n, fault) ==
    retrain_segmentation_model(retraining_config, segmentation_model, artifacts,
                               versions, n, fault)

job_options_present ==
    {"min_users_for_retraining", "backup_previous_model", "auto_optimize_params"}
        \subseteq DOMAIN retraining_config["segmentation"]

\* C21: in every state the scheduler reaches, a retraining job that passes
\* the gate backs the held fitted model up (when backup_previous_model is
\* set) before it trains, optimizes before it trains when
\* auto_optimize_params is set and then trains with the winning n_clusters
\* and algorithm, trains with 5 clusters and kmeans otherwise, and appends
\* metrics only after a train call that succeeded.
C21_JobStepOrder ==
    job_options_present =>
        \A n \in UserCounts, fault \in Faults :
            LET seg == retraining_config["segmentation"]
                r == job_on(n, fault)
                trains == positions(r.steps, "train")
            IN  (~too_few(n) /\ fault # "db") =>
                    /\ before(r.steps, "backup", "train")
                    /\ before(r.steps, "optimize", "train")
                    /\ before(r.steps, "train", "metrics")
                    /\ Cardinality(trains) <= 1
                    /\ (seg["backup_previous_model"] /\ model_held(segmentation_model) # 0
                           /\ trains # {})
                          => positions(r.steps, "backup") # {}
                    /\ \A i \in trains :
                          IF seg["auto_optimize_params"]
                          THEN /\ positions(r.steps, "optimize") # {}
                               /\ r.steps[i].args =
                                     optimize_parameters(segmentation_model).best_params
                          ELSE r.steps[i].args = [n_clusters |-> 5, algorithm |-> "kmeans"]
                    /\ positions(r.steps, "metrics") # {} => r.ended = "ok"
                    /\ (r.ended = "ok" /\ fault # "metrics_save")
                           => positions(r.steps, "metrics") # {}

\* A job has succeeded on a scheduler that had backed a fitted model up and
\* is configured to optimize.
C21_Witness ==
    /\ last_job = "ok"
    /\ artifacts["backup"] # 0
    /\ job_options_present
    /\ retraining_config["segmentation"]["auto_optimize_params"]
    /\ retraining_config["segmentation"]["backup_previous_model"]

(***************************************************************************)
(* Errors inside the retraining job.                                       *)
(***************************************************************************)
\* The faults that raise in the job's try block, given the configuration.
fails_job(fault) ==
    \/ fault \in {"db", "train_fit", "train_save"}
    \/ /\ fault = "optimize"
       /\ retraining_config["segmentation"]["auto_optimize_params"]

\* C22: in every state the scheduler reaches, the retraining job raises
\* nothing to its caller whatever step fails; a job whose body failed has
\* called the restore step once, as its last step, and no other job calls
\* it; a failure of the backup save or of the metrics log alone leaves the
\* job successful.
C22_JobErrorsContained ==
    \A n \in UserCounts, fault \in Faults :
        LET r == job_on(n, fault)
            restores == positions(r.steps, "restore")
        IN  /\ ~r.raised
            /\ r.ended = "failed" => restores = {Len(r.steps)}
            /\ r.ended # "failed" => restores = {}
            /\ (job_options_present /\ ~too_few(n)) =>
                  /\ fails_job(fault) => r.ended = "failed"
                  /\ ~fails_job(fault) => r.ended = "ok"

\* A job has failed after its try block had replaced the model.
C22_Witness ==
    /\ last_job = "failed"
    /\ segmentation_model # None
    /\ model_held(segmentation_model) # artifacts["primary"]

(***************************************************************************)
(* The one-hot encoding of language_code.                                  *)
(***************************************************************************)
codes_present == {rows[i].language_code[1] :
                     i \in {j \in DOMAIN rows : rows[j].language_code # None}}

lang_column(c) == "lang_" \o c

encoded_user_table == called("prepare_user") /\ columns(rows) = UserColumns

\* C23: prepare_features_for_ml returns the rows of its table without the
\* column language_code and with exactly one more column lang_<c> for each
\* distinct non-null language code c of the table, holding 1 in the rows of
\* code c and 0 in the others; which columns the result has follows the
\* codes present in the batch.
C23_OneHotFollowsBatch ==
    encoded_user_table =>
        /\ ~response[1].raised
        /\ Len(ml_df) = Len(rows)
        /\ \A i \in DOMAIN ml_df :
              /\ DOMAIN ml_df[i] = (UserColumns \ {"language_code"})
                                      \cup {lang_column(c) : c \in codes_present}
              /\ \A c \in codes_present :
                    ml_df[i][lang_column(c)] =
                        IF rows[i].language_code = Some(c) THEN 1 ELSE 0

\* A batch of one language has been encoded: it has no column of the other.
C23_Witness ==
    /\ encoded_user_table
    /\ Len(ml_df) = MaxUsers
    /\ rows[1].language_code = None
    /\ Cardinality(codes_present) = 1
    /\ \E c \in LanguageCodes : lang_column(c) \notin DOMAIN ml_df[1]

(***************************************************************************)
(* The two schedulers in one process.  Both modules import the schedule    *)
(* library and use its module-level functions, which act on one default    *)
(* scheduler: schedule.clear() empties it, schedule.every() appends to it  *)
(* and schedule.run_pending() runs every due job of it.                    *)
(***************************************************************************)
UpdateJob(unit, at) == [run |-> "update_predictions", unit |-> unit, at |-> at]

\* PredictionUpdater._setup_schedule: schedule.clear(), then the job of the
\* configured type (at is "" for a job without a time of day); a missing key
\* raises KeyError.
updater_setup_schedule(config) ==
    LET has(k) == k \in DOMAIN config
        raised == [jobs |-> <<>>, raised |-> TRUE]
    IN  IF ~has("enabled") THEN raised
        ELSE IF ~config["enabled"] THEN [jobs |-> <<>>, raised |-> FALSE]
        ELSE IF ~has("schedule") THEN raised
        ELSE IF config["schedule"] = "daily" THEN
                IF has("time")
                THEN [jobs |-> <<UpdateJob("day", config["time"])>>, raised |-> FALSE]
                ELSE raised
        ELSE IF config["schedule"] = "hourly" THEN
                [jobs |-> <<UpdateJob("hour", "")>>, raised |-> FALSE]
        ELSE IF config["schedule"] = "weekly" THEN
                [jobs |-> <<UpdateJob("week", "")>>, raised |-> FALSE]
        ELSE [jobs |-> <<>>, raised |-> FALSE]

\* Attribute lookup on the updater instance: a name __init__ assigned on
\* self is found in the instance before a function of the class is.
instance_attributes ==
    { "purchase_prediction_model", "db_connection", "is_running", "updater_thread",
      "logger", "update_config" }

class_functions ==
    { "start", "stop", "_run_scheduler", "_setup_schedule", "_update_predictions",
      "trigger_update", "update_config", "get_update_status" }

getattr(name) ==
    IF name \in instance_attributes THEN "attribute"
    ELSE IF name \in class_functions THEN "function"
    ELSE "missing"

\* The request bodies the updater is reconfigured with.
UpdateConfigs ==
    { [schedule |-> "hourly"], [enabled |-> FALSE], [time |-> "04:30"] }

\* updater.update_config(config), as a caller writes it: the name is looked
\* up on the instance and the result is called with config.  The dict the
\* lookup finds is not callable: TypeError, raised in the caller, outside
\* the method's try block.
call_update_config(config) ==
    /\ IF getattr("update_config") = "function"
       THEN /\ update_config' = dict_update(update_config, config)
            /\ jobs' = updater_setup_schedule(update_config').jobs
            /\ response' = Some(Returned(None))
       ELSE /\ response' = Some(Raised([error |-> "TypeError"]))
            /\ UNCHANGED <<update_config, jobs>>
    /\ UNCHANGED <<is_running, retraining_thread, thread_pc, retraining_config,
                   model_vars, history_vars, last_job>>
    /\ UNCHANGED <<user_metrics, unique_user_id, purchase_model_file,
                   purchase_prediction_model, update_runs, produced, arrivals,
                   updater_is_running, updater_thread_pc>>
    /\ UNCHANGED <<feat_vars, api_purchase_model, train_calls>>

\* get_update_status(): the flag, the configuration and the model status
\* (next_update, the library's clock arithmetic, is left out).
get_update_status ==
    /\ response' = Some(Returned([is_running |-> updater_is_running,
                                  config |-> update_config,
                                  purchase_prediction_model_loaded |->
                                      purchase_prediction_model = Some("loaded")]))
    /\ UNCHANGED <<sched_vars, feat_vars, upd_vars, api_purchase_model, train_calls>>

\* PredictionUpdater.start(), for the one thread that is modelled.
updater_start ==
    /\ updater_thread_pc = "unborn"
    /\ ~updater_is_running
    /\ updater_is_running' = TRUE
    /\ updater_thread_pc' = "setup"
    /\ UNCHANGED <<user_metrics, unique_user_id, purchase_model_file,
                   purchase_prediction_model, update_runs, produced, arrivals,
                   update_config>>
    /\ UNCHANGED <<sched_vars, feat_vars, api_vars>>

\* PredictionUpdater._run_scheduler, first statement.
updater_loop_setup ==
    /\ updater_thread_pc = "setup"
    /\ LET r == updater_setup_schedule(update_config)
       IN  /\ jobs' = r.jobs
           /\ updater_thread_pc' = IF r.raised THEN "dead" ELSE "loop"
    /\ UNCHANGED <<is_running, retraining_thread, thread_pc, retraining_config,
                   model_vars, history_vars, last_job>>
    /\ UNCHANGED <<user_metrics, unique_user_id, purchase_model_file,
                   purchase_prediction_model, update_runs, produced, arrivals,
                   update_config, updater_is_running>>
    /\ UNCHANGED <<feat_vars, api_vars>>

Schedulers == {"retraining", "updater"}

registered_by(job) ==
    IF job.run = "retrain_segmentation_model" THEN "retraining" ELSE "updater"

\* Whether a loop thread of the scheduler is inside its while loop.
looping(scheduler) ==
    IF scheduler = "retraining"
    THEN is_running /\ \E t \in Threads : thread_pc[t] = "loop"
    ELSE updater_is_running /\ updater_thread_pc = "loop"

\* schedule.run_pending() in a loop thread of the scheduler, with job j of
\* the default scheduler due: the job's function is called.
run_pending(scheduler, j) ==
    /\ looping(scheduler)
    /\ j \in DOMAIN jobs
    /\ IF jobs[j].run = "retrain_segmentation_model"
       THEN /\ \E n \in UserCounts, fault \in Faults : run_job(n, fault)
            /\ UNCHANGED <<is_running, retraining_thread, thread_pc, jobs,
                           retraining_config, history_vars>>
            /\ UNCHANGED <<feat_vars, upd_vars, api_vars>>
       ELSE update_predictions_begin("scheduled")

\* Both schedulers constructed in a process with or without a persisted
\* purchase model.
ProcInit ==
    /\ SchedIdle
    /\ FeatIdle
    /\ ApiIdle
    /\ UpdaterConstructed
    /\ user_metrics = <<>>
    /\ unique_user_id = FALSE
    /\ purchase_model_file \in BOOLEAN
    /\ purchase_prediction_model = None
    /\ update_runs = [r \in UpdRuns |-> IdleRun]
    /\ produced = <<>>
    /\ arrivals = 0

ProcNext ==
    \/ start
    \/ \E t \in Threads : loop_setup(t)
    \/ \E c \in ConfigUpdates : update_retraining_config(c)
    \/ updater_start
    \/ updater_loop_setup
    \/ \E c \in UpdateConfigs : call_update_config(c)
    \/ get_update_status
    \/ \E s \in Schedulers, j \in DOMAIN jobs : run_pending(s, j)

ProcSpec == ProcInit /\ [][ProcNext]_vars

\* C24: update_config(config) on a constructed updater returns without
\* raising, leaves the configuration merged with config and the schedule
\* rebuilt from the merged configuration, and get_update_status then
\* reports the configuration the updater holds.
C24_UpdateConfigMergesAndRebuilds ==
    [][/\ \A c \in UpdateConfigs :
             call_update_config(c) =>
                 /\ ~response'[1].raised
                 /\ update_config' = dict_update(update_config, c)
                 /\ jobs' = updater_setup_schedule(update_config').jobs
       /\ get_update_status => response'[1].value.config = update_config]_vars

jobs_of(scheduler, registry) ==
    SelectSeq(registry, LAMBDA job : registered_by(job) = scheduler)

retraining_rebuilds ==
    \/ \E t \in Threads : loop_setup(t)
    \/ \E c \in ConfigUpdates : update_retraining_config(c)

updater_rebuilds ==
    \/ updater_loop_setup
    \/ \E c \in UpdateConfigs : call_update_config(c)

\* C26: a loop of one scheduler runs only jobs that scheduler registered,
\* and a step of one scheduler (its start, its schedule set-up, its
\* reconfiguration, its tick) leaves the jobs the other registered in place.
C26_SchedulersIsolated ==
    [][/\ \A s \in Schedulers, j \in DOMAIN jobs :
             run_pending(s, j) => registered_by(jobs[j]) = s
       /\ (updater_start \/ updater_rebuilds) =>
             jobs_of("retraining", jobs') = jobs_of("retraining", jobs)
       /\ (start \/ retraining_rebuilds) =>
             jobs_of("updater", jobs') = jobs_of("updater", jobs)
       /\ (\E s \in Schedulers, j \in DOMAIN jobs : run_pending(s, j)) =>
             jobs' = jobs]_vars

(***************************************************************************)
(* The retraining job as its callers execute it: an execution enters the   *)
(* job (extraction, gate, backup, wrapper), spends its time in             *)
(* optimize_parameters and train, and leaves when train has returned or    *)
(* raised.  Nothing in the job, in trigger_retraining or in the endpoint   *)
(* takes a lock or tests a busy flag.                                      *)
(***************************************************************************)
may_call(c) ==
    IF c = "loop" THEN looping("retraining") /\ jobs # <<>> ELSE TRUE

job_enter(c, n) ==
    /\ executions[c] = "idle"
    /\ may_call(c)
    /\ versions < MaxVersions
    /\ LET seg == retraining_config["segmentation"]
           b == IF seg["backup_previous_model"]
                THEN backup_current_model(segmentation_model, artifacts, "none")
                ELSE [sm |-> segmentation_model, files |-> artifacts]
       IN  IF n < seg["min_users_for_retraining"]
           THEN /\ last_job' = "gated"
                /\ UNCHANGED model_vars
           ELSE /\ segmentation_model' = IF b.sm = None THEN Some(NewWrapper) ELSE b.sm
                /\ artifacts' = b.files
                /\ executions' = [executions EXCEPT ![c] = "training"]
                /\ last_job' = "none"
                /\ UNCHANGED versions
    /\ UNCHANGED <<is_running, retraining_thread, thread_pc, jobs, retraining_config,
                   history_vars>>
    /\ UNCHANGED <<feat_vars, upd_vars, api_vars>>

job_leave(c, fault) ==
    /\ executions[c] = "training"
    /\ LET t == train(segmentation_model[1], artifacts, versions, fault)
       IN  /\ segmentation_model' = Some(t.w)
           /\ artifacts' = t.files
           /\ versions' = t.versions
           /\ last_job' = IF t.raised THEN "failed" ELSE "ok"
    /\ executions' = [executions EXCEPT ![c] = "idle"]
    /\ UNCHANGED <<is_running, retraining_thread, thread_pc, jobs, retraining_config,
                   history_vars>>
    /\ UNCHANGED <<feat_vars, upd_vars, api_vars>>

FitOutcomes == {"none", "train_fit", "train_save"}

ExecNext ==
    \/ start
    \/ stop
    \/ \E t \in Threads : loop_setup(t)
    \/ \E t \in Threads : loop_exit(t)
    \/ \E c \in Executors, n \in UserCounts : job_enter(c, n)
    \/ \E c \in Executors, f \in FitOutcomes : job_leave(c, f)

ExecSpec == SchedInit /\ [][ExecNext]_vars

in_progress == {c \in Executors : executions[c] # "idle"}

\* C25: at most one execution of _retrain_segmentation_model is in progress
\* in any state, whoever the callers are.
C25_OneRetrainingAtATime == Cardinality(in_progress) <= 1

(***************************************************************************)
(* The running flag and the loop threads.                                  *)
(***************************************************************************)
\* C27: whenever is_running is true (what get_retraining_status reports and
\* what makes start() return at once), a loop thread is alive: one that is
\* setting up the schedule or is inside the while loop.
C27_RunningFlagMatchesLoop == is_running => LiveThreads # {}

(***************************************************************************)
(* The wrapper's model_path across a backup.                               *)
(***************************************************************************)
\* C28: _backup_current_model, whether its save succeeds or fails, returns
\* with the wrapper's model_path equal to its value before the call.
C28_BackupKeepsModelPath ==
    \A fault \in Faults :
        LET b == backup_current_model(segmentation_model, artifacts, fault)
        IN  segmentation_model # None =>
                b.sm[1].model_path = segmentation_model[1].model_path

(***************************************************************************)
(* The updater's model across runs.                                        *)
(***************************************************************************)
\* C29: a run of _update_predictions that finds a persisted model goes on
\* with a loaded model and a run that finds none skips the update, whatever
\* earlier runs did; and no batch is predicted with a wrapper whose load
\* did not succeed.
C29_NeverPredictsUnloaded ==
    [][/\ \A r \in UpdRuns :
             update_predictions_begin(r) =>
                 IF purchase_model_file
                 THEN purchase_prediction_model' = Some("loaded")
                 ELSE update_runs'[r].pc = "idle"
       /\ \A r \in UpdRuns, f \in DbFaults :
             update_batch_predictions(r, f) =>
                 purchase_prediction_model = Some("loaded")]_vars

(***************************************************************************)
(* The two extractors' average session duration.                           *)
(***************************************************************************)
\* The windows both extractors compute the average for.
SessionWindows == {7, 14}

\* C30: for the stored, time-ordered history of a user, every prediction
\* date and every window, the purchase extractor's and the churn
\* extractor's average session duration in the window are equal.
C30_SessionAveragesAgree ==
    \A u \in DOMAIN db_events, d \in PredictionDates, days \in SessionWindows :
        calculate_avg_session_duration_in_window(db_events[u], d, days)
            = churn_calculate_avg_session_duration_in_window(db_events[u], d, days)


====
